---------------------------- MODULE Spec2Model ----------------------------
(***************************************************************************)
(* A model of the trading ledger (Spot-Canvas/ledger): the PostgreSQL      *)
(* store (trade log, positions, accounts) with its READ COMMITTED          *)
(* transactions, the position engine of upsertSpotPosition and             *)
(* upsertFuturesPosition, the JetStream consumer and the import handler.   *)
(*                                                                         *)
(* Numbers: the code computes in float64 / DOUBLE PRECISION.  The model    *)
(* computes the same expressions over exact rationals <<n, d>>, d > 0, in  *)
(* lowest terms, so an equality that holds here holds in the code up to    *)
(* floating-point rounding.                                                *)
(* Time: an instant is <<seconds, fraction>> at the resolution of the      *)
(* TIMESTAMPTZ columns; Unix() keeps the seconds.                          *)
(* NULL is the empty tuple, a present value v is <<v>>.                    *)
(***************************************************************************)
EXTENDS Integers, Sequences, FiniteSets, TLC

VARIABLES
    accounts,    \* ledger_accounts: set of account rows (committed)
    trades,      \* ledger_trades: set of trade rows (committed)
    positions,   \* ledger_positions: set of position rows (committed)
    pc,          \* pc[w]: where worker w stands in its handler / store call
    call,        \* call[w]: arguments of the running store call
    txTrades,    \* txTrades[w]: trade rows inserted by w's open transaction
    txDel,       \* txDel[w]: ids of position rows deleted by w's transaction
    txRows,      \* txRows[w]: position rows inserted/updated by w's transaction
    txRead,      \* txRead[w]: the row the last position SELECT returned
    rbTrades,    \* rbTrades[w]: trades RebuildPositions still has to replay
    ret,         \* ret[w]: result of the last finished store call
    stream,      \* JetStream: sequence of messages with their delivery state
    hnd,         \* hnd[w]: handler-local data (current message / import batch)
    okTrades,    \* history: trade ids whose InsertTradeAndUpdatePosition returned inserted
    ordered,     \* history: ordered[a] while a's trades were committed in (timestamp, trade_id) order
    faults,      \* history: number of injected storage failures
    ncalls       \* history: number of store calls / requests started by callers

vars == <<accounts, trades, positions, pc, call, txTrades, txDel, txRows,
          txRead, rbTrades, ret, stream, hnd, okTrades, ordered, faults, ncalls>>

storeVars == <<accounts, trades, positions>>
txVars == <<txTrades, txDel, txRows, txRead, rbTrades>>

-----------------------------------------------------------------------------
(* Bounds of the model. *)

\* storage failures (I/O errors, cancelled contexts) injected in one run
MaxFaults == 1
\* store calls a direct caller of the Repository issues in one run
MaxCalls == 4
\* store calls the single caller of the sequential specification issues
MaxSeqCalls == 7
\* messages published to the stream in one run
MaxMsgs == 3
\* import requests served in one run
MaxImports == 3
\* trades applied one after another to the position rows
MaxApply == 4

(* Program constants. *)

\* jetstream.ConsumerConfig.MaxDeliver
MaxDeliver == 5
\* the import handler's cap on len(req.Trades)
MaxImportTrades == 1000

-----------------------------------------------------------------------------
(* Values. *)

Null == <<>>
Some(v) == <<v>>

RECURSIVE GCD(_, _)
GCD(a, b) == IF b = 0 THEN a ELSE GCD(b, a % b)

Abs(n) == IF n < 0 THEN -n ELSE n

\* the rational n/d (d # 0) in lowest terms with a positive denominator
RNorm(n, d) ==
    LET s == IF d < 0 THEN -1 ELSE 1
        g == GCD(Abs(n), Abs(d))
    IN  <<(s * n) \div g, (s * d) \div g>>

R(n) == <<n, 1>>
RAdd(a, b) == RNorm(a[1] * b[2] + b[1] * a[2], a[2] * b[2])
RSub(a, b) == RNorm(a[1] * b[2] - b[1] * a[2], a[2] * b[2])
RMul(a, b) == RNorm(a[1] * b[1], a[2] * b[2])
RDiv(a, b) == RNorm(a[1] * b[2], a[2] * b[1])
RLeq0(a) == a[1] <= 0
RLess(a, b) == a[1] * b[2] < b[1] * a[2]

\* time.Time.Unix(): the whole seconds of an instant
Unix(t) == t[1]
TimeLess(a, b) == a[1] < b[1] \/ (a[1] = b[1] /\ a[2] < b[2])

\* time.Parse(time.RFC3339, s) on the timestamp strings of the model:
\* Null is a parse error, seconds are counted from 10:00:00Z.
ParseTime(s) ==
    CASE s = "2025-01-15T10:00:00Z" -> Some(<<0, 0>>)
      [] s = "2025-01-15T10:00:00.5Z" -> Some(<<0, 5>>)
      [] s = "2025-01-15T10:00:01Z" -> Some(<<1, 0>>)
      [] s = "2025-01-15T10:00:01.5Z" -> Some(<<1, 5>>)
      [] s = "2025-01-15T10:00:02Z" -> Some(<<2, 0>>)
      [] s = "2025-01-15T12:00:00+02:00" -> Some(<<0, 0>>)
      [] OTHER -> Null

\* Go's < on strings is byte-wise: the rank of each timestamp string of the
\* model in that order ('.' = 0x2E sorts before 'Z' = 0x5A).
LexRank(s) ==
    CASE s = "" -> 0
      [] s = "2025-01-15T10:00:00.5Z" -> 1
      [] s = "2025-01-15T10:00:00Z" -> 2
      [] s = "2025-01-15T10:00:01.5Z" -> 3
      [] s = "2025-01-15T10:00:01Z" -> 4
      [] s = "2025-01-15T10:00:02Z" -> 5
      [] s = "2025-01-15T12:00:00+02:00" -> 6
      [] OTHER -> 7

StringLess(s1, s2) == LexRank(s1) < LexRank(s2)

-----------------------------------------------------------------------------
(* Trade events (ingest.TradeEvent).  A trade_id is modelled by its rank   *)
(* in the collation order of the trade_id column; 0 is the empty string.   *)

Event(id, acct, sym, side, q, p, f, mkt, ts, fund) ==
    [trade_id |-> id, account_id |-> acct, symbol |-> sym, side |-> side,
     quantity |-> R(q), price |-> R(p), fee |-> R(f), fee_currency |-> "USD",
     market_type |-> mkt, timestamp |-> ts,
     leverage |-> Null, margin |-> Null, liquidation_price |-> Null,
     funding_fee |-> fund]

T0 == "2025-01-15T10:00:00Z"
T1 == "2025-01-15T10:00:01Z"
T2 == "2025-01-15T10:00:02Z"

\* The events the upstream bot can publish or an import can carry.
EventTable ==
    << Event(1, "a", "X", "buy",  1, 2, 1, "spot", T0, Null),
       Event(2, "a", "X", "sell", 2, 3, 0, "spot", T0, Null),
       Event(3, "a", "X", "buy",  1, 4, 0, "spot", T0, Null),
       Event(4, "a", "X", "buy",  2, 3, 1, "spot", T1, Null),
       Event(5, "a", "X", "sell", 1, 5, 1, "spot", T2, Null),
       Event(6, "b", "X", "sell", 2, 4, 0, "futures", T0, Null),
       Event(7, "b", "X", "buy",  1, 3, 1, "futures", T1, Some(R(1))),
       Event(8, "b", "X", "buy",  1, 2, 0, "spot", T1, Null),
       \* events Validate rejects
       Event(9, "a", "X", "buy",  0, 2, 0, "spot", T0, Null),
       Event(10, "a", "X", "buy", 1, 2, 0, "options", T0, Null),
       Event(11, "a", "X", "buy", 1, 2, 0, "spot", "yesterday", Null),
       Event(0, "a", "X", "sell", 1, 2, 0, "spot", T0, Null),
       \* account and symbol ids that hold the separator of the position id
       Event(13, "a", "X-Y", "buy", 1, 2, 0, "spot", T0, Null),
       Event(14, "a-X", "Y", "buy", 1, 3, 0, "spot", T0, Null),
       \* 1.0 @ 40000 fee 20, then 0.5 @ 42000 fee 10.50
       Event(15, "a", "X", "buy", 1, 40000, 20, "spot", T0, Null),
       [Event(16, "a", "X", "buy", 1, 42000, 21, "spot", T1, Null)
            EXCEPT !.quantity = RDiv(R(1), R(2)), !.fee = RDiv(R(21), R(2))],
       \* short 10 @ 100, then close 4 @ 90 fee 2 funding 1
       Event(17, "b", "X", "sell", 10, 100, 0, "futures", T0, Null),
       Event(18, "b", "X", "buy", 4, 90, 2, "futures", T1, Some(R(1))),
       \* futures trades with and without leverage, margin, liquidation price
       [Event(19, "b", "X", "buy", 3, 5, 1, "futures", T2, Null)
            EXCEPT !.leverage = Some(5), !.margin = Some(R(2)),
                   !.liquidation_price = Some(R(1))],
       [Event(20, "b", "X", "sell", 1, 6, 0, "futures", T1, Null)
            EXCEPT !.leverage = Some(3)],
       Event(21, "b", "X", "buy", 1, 4, 1, "futures", T2, Null),
       \* a fee below zero
       Event(22, "a", "X", "buy", 1, 2, -1, "spot", T0, Null),
       \* 10:00:00Z written with a numeric offset
       Event(23, "a", "X", "buy", 1, 2, 0, "spot", "2025-01-15T12:00:00+02:00", Null) >>

ValidEvents == {EventTable[i] : i \in (1..8) \cup (13..23)}
InvalidEvents == {EventTable[i] : i \in 9..12}

\* variant: a Validate that accepts every event
AcceptAll(e) == TRUE

\* TradeEvent.Validate: TRUE iff it returns nil
Validate(e) ==
    /\ e.trade_id # 0
    /\ e.account_id # ""
    /\ e.symbol # ""
    /\ e.side \in {"buy", "sell"}
    /\ ~RLeq0(e.quantity)
    /\ ~RLeq0(e.price)
    /\ e.fee_currency # ""
    /\ e.timestamp # ""
    /\ e.market_type \in {"spot", "futures"}
    /\ ParseTime(e.timestamp) # Null

\* TradeEvent.ToDomain: Null on a timestamp parse error, else the domain.Trade
\* (IngestedAt = time.Now() plays no part in any position and is left out).
ToDomain(e) ==
    IF ParseTime(e.timestamp) = Null THEN Null
    ELSE Some([trade_id |-> e.trade_id, account_id |-> e.account_id,
               symbol |-> e.symbol, side |-> e.side, quantity |-> e.quantity,
               price |-> e.price, fee |-> e.fee, fee_currency |-> e.fee_currency,
               market_type |-> e.market_type,
               timestamp |-> ParseTime(e.timestamp)[1],
               cost_basis |-> IF e.side = "buy"
                              THEN RAdd(RMul(e.quantity, e.price), e.fee)
                              ELSE R(0),
               realized_pnl |-> R(0),
               leverage |-> e.leverage, margin |-> e.margin,
               liquidation_price |-> e.liquidation_price,
               funding_fee |-> e.funding_fee])

\* domain.InferAccountType
InferAccountType(accountID) == IF accountID = "paper" THEN "paper" ELSE "live"

\* store.CostBasisForTrade: the trade with cost_basis and realized_pnl stamped
CostBasisForTrade(trade, avgEntryPrice) ==
    IF trade.side = "buy"
    THEN [trade EXCEPT !.cost_basis = RAdd(RMul(trade.quantity, trade.price), trade.fee),
                       !.realized_pnl = R(0)]
    ELSE [trade EXCEPT !.cost_basis = RMul(avgEntryPrice, trade.quantity),
                       !.realized_pnl = RSub(RMul(RSub(trade.price, avgEntryPrice),
                                                  trade.quantity), trade.fee)]

-----------------------------------------------------------------------------
(* The position engine: what upsertSpotPosition / upsertFuturesPosition    *)
(* decide from the row their SELECT returned (pos: Null or <<row>>) and    *)
(* the trade, as the SQL statement they then execute.                      *)

\* fmt.Sprintf("%s-%s-spot-%d", AccountID, Symbol, Timestamp.Unix()) and its
\* futures twin
PosID(trade) ==
    trade.account_id \o "-" \o trade.symbol \o "-" \o trade.market_type
        \o "-" \o ToString(Unix(trade.timestamp))

NoStmt == [op |-> "none", kind |-> "none", id |-> "", row |-> Null,
           qty |-> R(0), avg |-> R(0), cb |-> R(0), pnl |-> R(0),
           at |-> <<0, 0>>, lev |-> Null, mar |-> Null, liq |-> Null]

InsertStmt(row) == [NoStmt EXCEPT !.op = "insert", !.kind = "insert",
                                  !.id = row.id, !.row = Some(row)]

\* variant: every new position is long
NewPositionLong(trade, side, costBasis) ==
    [id |-> PosID(trade), account_id |-> trade.account_id,
     symbol |-> trade.symbol, market_type |-> trade.market_type,
     side |-> "long", quantity |-> trade.quantity,
     avg_entry_price |-> trade.price, cost_basis |-> costBasis,
     realized_pnl |-> R(0),
     leverage |-> IF trade.market_type = "futures" THEN trade.leverage ELSE Null,
     margin |-> IF trade.market_type = "futures" THEN trade.margin ELSE Null,
     liquidation_price |-> IF trade.market_type = "futures"
                           THEN trade.liquidation_price ELSE Null,
     status |-> "open", opened_at |-> trade.timestamp, closed_at |-> Null]

\* the row of INSERT INTO ledger_positions for a trade that opens a position
NewPosition(trade, side, costBasis) ==
    [id |-> PosID(trade), account_id |-> trade.account_id,
     symbol |-> trade.symbol, market_type |-> trade.market_type,
     side |-> side, quantity |-> trade.quantity,
     avg_entry_price |-> trade.price, cost_basis |-> costBasis,
     realized_pnl |-> R(0),
     leverage |-> IF trade.market_type = "futures" THEN trade.leverage ELSE Null,
     margin |-> IF trade.market_type = "futures" THEN trade.margin ELSE Null,
     liquidation_price |-> IF trade.market_type = "futures"
                           THEN trade.liquidation_price ELSE Null,
     status |-> "open", opened_at |-> trade.timestamp, closed_at |-> Null]

\* variant: a closing trade closes the position whatever its quantity
AlwaysClose(p, trade, realizedPnL) ==
    [NoStmt EXCEPT !.op = "update", !.kind = "close", !.id = p.id,
                   !.pnl = realizedPnL, !.at = trade.timestamp]

\* variant: a closing trade reduces the position whatever its quantity
AlwaysReduce(p, trade, realizedPnL) ==
    [NoStmt EXCEPT !.op = "update", !.kind = "reduce", !.id = p.id,
                   !.qty = RSub(p.quantity, trade.quantity),
                   !.cb = RMul(p.avg_entry_price, RSub(p.quantity, trade.quantity)),
                   !.pnl = realizedPnL]

\* the close branch: newQuantity <= 0 closes, else the position is reduced
CloseOrReduce(p, trade, realizedPnL) ==
    LET newQuantity == RSub(p.quantity, trade.quantity)
    IN  IF RLeq0(newQuantity)
        THEN [NoStmt EXCEPT !.op = "update", !.kind = "close", !.id = p.id,
                            !.pnl = realizedPnL, !.at = trade.timestamp]
        ELSE [NoStmt EXCEPT !.op = "update", !.kind = "reduce", !.id = p.id,
                            !.qty = newQuantity,
                            !.cb = RMul(p.avg_entry_price, newQuantity),
                            !.pnl = realizedPnL]

\* variant: a spot trade that finds no position opens one, whatever its side
SpotOpensOnSell(pos, trade) ==
    IF pos = Null
    THEN InsertStmt(NewPosition(trade,
             IF trade.side = "buy" THEN "long" ELSE "short",
             RAdd(RMul(trade.quantity, trade.price), trade.fee)))
    ELSE NoStmt

\* upsertSpotPosition after its SELECT
SpotStatement(pos, trade) ==
    IF pos = Null
    THEN IF trade.side = "buy"
         THEN InsertStmt(NewPosition(trade, "long",
                  RAdd(RMul(trade.quantity, trade.price), trade.fee)))
         ELSE NoStmt
    ELSE LET p == pos[1] IN
         IF trade.side = "buy"
         THEN LET newCostBasis == RAdd(RMul(trade.quantity, trade.price), trade.fee)
                  totalQuantity == RAdd(p.quantity, trade.quantity)
                  totalCost == RAdd(p.cost_basis, newCostBasis)
              IN  [NoStmt EXCEPT !.op = "update", !.kind = "add_spot", !.id = p.id,
                                 !.qty = totalQuantity,
                                 !.avg = RDiv(totalCost, totalQuantity),
                                 !.cb = totalCost]
         ELSE CloseOrReduce(p, trade,
                  RSub(RMul(RSub(trade.price, p.avg_entry_price), trade.quantity),
                       trade.fee))

\* upsertFuturesPosition after its SELECT
FuturesStatement(pos, trade) ==
    IF pos = Null
    THEN InsertStmt(NewPosition(trade,
             IF trade.side = "buy" THEN "long" ELSE "short",
             RMul(trade.quantity, trade.price)))
    ELSE LET p == pos[1]
             isClosing == \/ (p.side = "long" /\ trade.side = "sell")
                          \/ (p.side = "short" /\ trade.side = "buy")
         IN
         IF ~isClosing
         THEN LET newCost == RMul(trade.quantity, trade.price)
                  totalQuantity == RAdd(p.quantity, trade.quantity)
                  totalCost == RAdd(p.cost_basis, newCost)
              IN  [NoStmt EXCEPT !.op = "update", !.kind = "add_futures", !.id = p.id,
                                 !.qty = totalQuantity,
                                 !.avg = RDiv(totalCost, totalQuantity),
                                 !.cb = totalCost,
                                 !.lev = trade.leverage, !.mar = trade.margin,
                                 !.liq = trade.liquidation_price]
         ELSE LET gross == IF p.side = "long"
                           THEN RMul(RSub(trade.price, p.avg_entry_price), trade.quantity)
                           ELSE RMul(RSub(p.avg_entry_price, trade.price), trade.quantity)
                  afterFee == RSub(gross, trade.fee)
                  realizedPnL == IF trade.funding_fee # Null
                                 THEN RSub(afterFee, trade.funding_fee[1])
                                 ELSE afterFee
              IN  CloseOrReduce(p, trade, realizedPnL)

\* UpsertPosition's dispatch on the market type
Statement(pos, trade) ==
    IF trade.market_type = "spot" THEN SpotStatement(pos, trade)
    ELSE FuturesStatement(pos, trade)

\* variant: the column is set to the parameter, NULL or not
TakeNew(new, old) == new

Coalesce(new, old) == IF new # Null THEN new ELSE old

\* variant: realized_pnl = $k in place of realized_pnl = realized_pnl + $k
ApplyUpdateSetPnl(stmt, r) ==
    CASE stmt.kind = "add_spot" ->
            [r EXCEPT !.quantity = stmt.qty, !.avg_entry_price = stmt.avg,
                      !.cost_basis = stmt.cb]
      [] stmt.kind = "add_futures" ->
            [r EXCEPT !.quantity = stmt.qty, !.avg_entry_price = stmt.avg,
                      !.cost_basis = stmt.cb,
                      !.leverage = Coalesce(stmt.lev, r.leverage),
                      !.margin = Coalesce(stmt.mar, r.margin),
                      !.liquidation_price = Coalesce(stmt.liq, r.liquidation_price)]
      [] stmt.kind = "close" ->
            [r EXCEPT !.quantity = R(0), !.realized_pnl = stmt.pnl,
                      !.status = "closed", !.closed_at = Some(stmt.at)]
      [] stmt.kind = "reduce" ->
            [r EXCEPT !.quantity = stmt.qty, !.cost_basis = stmt.cb,
                      !.realized_pnl = stmt.pnl]

\* an UPDATE ledger_positions ... WHERE id = $n applied to the row version r
\* it finds: realized_pnl = realized_pnl + $k reads r, the other columns are
\* overwritten with the statement's parameters
ApplyUpdate(stmt, r) ==
    CASE stmt.kind = "add_spot" ->
            [r EXCEPT !.quantity = stmt.qty, !.avg_entry_price = stmt.avg,
                      !.cost_basis = stmt.cb]
      [] stmt.kind = "add_futures" ->
            [r EXCEPT !.quantity = stmt.qty, !.avg_entry_price = stmt.avg,
                      !.cost_basis = stmt.cb,
                      !.leverage = Coalesce(stmt.lev, r.leverage),
                      !.margin = Coalesce(stmt.mar, r.margin),
                      !.liquidation_price = Coalesce(stmt.liq, r.liquidation_price)]
      [] stmt.kind = "close" ->
            [r EXCEPT !.quantity = R(0),
                      !.realized_pnl = RAdd(r.realized_pnl, stmt.pnl),
                      !.status = "closed", !.closed_at = Some(stmt.at)]
      [] stmt.kind = "reduce" ->
            [r EXCEPT !.quantity = stmt.qty, !.cost_basis = stmt.cb,
                      !.realized_pnl = RAdd(r.realized_pnl, stmt.pnl)]

-----------------------------------------------------------------------------
(* The schema's constraints on ledger_positions. *)

Ids(rows) == {r.id : r \in rows}

KeyOf(x) == <<x.account_id, x.symbol, x.market_type>>

\* PRIMARY KEY (id)
PrimaryKeyConflict(r, v) == v.id = r.id

\* variant: a schema without the partial unique index
NoOpenUniqueConflict(r, v) == FALSE

\* idx_ledger_positions_open_unique: UNIQUE (account_id, symbol, market_type)
\* WHERE status = 'open'
OpenUniqueConflict(r, v) ==
    r.status = "open" /\ v.status = "open" /\ KeyOf(r) = KeyOf(v)

\* inserting r next to the row v violates a constraint
ConflictsWith(r, v) == PrimaryKeyConflict(r, v) \/ OpenUniqueConflict(r, v)

\* SELECT ... WHERE account_id = $1 AND symbol = $2 AND market_type = ..
\* AND status = 'open', scanned into one row: Null is pgx.ErrNoRows.  Where
\* several rows match, QueryRow keeps one of them.
OpenRows(rows, key) == {r \in rows : KeyOf(r) = key /\ r.status = "open"}

\* UpsertPosition run alone on the committed rows: [ok, rows], ok = FALSE
\* when its INSERT violates a constraint (rows are then left as they were)
UpsertPosition(rows, trade) ==
    LET open == OpenRows(rows, KeyOf(trade))
        pos == IF open = {} THEN Null ELSE Some(CHOOSE r \in open : TRUE)
        stmt == Statement(pos, trade)
    IN  CASE stmt.op = "none" -> [ok |-> TRUE, rows |-> rows]
          [] stmt.op = "insert" ->
                IF \E v \in rows : ConflictsWith(stmt.row[1], v)
                THEN [ok |-> FALSE, rows |-> rows]
                ELSE [ok |-> TRUE, rows |-> rows \cup {stmt.row[1]}]
          [] stmt.op = "update" ->
                [ok |-> TRUE,
                 rows |-> {IF r.id = stmt.id THEN ApplyUpdate(stmt, r) ELSE r : r \in rows}]

\* the loop of RebuildPositions run alone: UpsertPosition for each trade of
\* ts in turn, stopping at the first error
RECURSIVE Replay(_, _)
Replay(rows, ts) ==
    IF ts = <<>> THEN [ok |-> TRUE, rows |-> rows]
    ELSE LET one == UpsertPosition(rows, Head(ts))
         IN  IF one.ok THEN Replay(one.rows, Tail(ts)) ELSE one

-----------------------------------------------------------------------------
(* Workers: goroutines that call the Repository.  Callers stand for any    *)
(* code calling the exported store methods directly; the consumer is the   *)
(* JetStream callback (one message at a time); importers are HTTP request  *)
(* goroutines serving POST /api/v1/import.                                 *)

Callers == {"w1", "w2"}
ConsumerW == "c"
Importers == {"h1"}
Workers == Callers \cup {ConsumerW} \cup Importers

NoCall == [op |-> "none", trade |-> Null, account |-> "", key |-> <<>>,
           inserted |-> FALSE, snap |-> {}]
NoRet == [inserted |-> FALSE, err |-> "none", val |-> R(0)]

TradeIds(ts) == {t.trade_id : t \in ts}

\* ORDER BY timestamp ASC, trade_id ASC
TradeKeyLess(x, y) ==
    \/ TimeLess(x.timestamp, y.timestamp)
    \/ (x.timestamp = y.timestamp /\ x.trade_id < y.trade_id)

\* variant: ORDER BY timestamp DESC, trade_id DESC
RECURSIVE SortTradesDesc(_)
SortTradesDesc(ts) ==
    IF ts = {} THEN <<>>
    ELSE LET last == CHOOSE x \in ts : \A y \in ts \ {x} : TradeKeyLess(y, x)
         IN  <<last>> \o SortTradesDesc(ts \ {last})

RECURSIVE SortTrades(_)
SortTrades(ts) ==
    IF ts = {} THEN <<>>
    ELSE LET first == CHOOSE x \in ts : \A y \in ts \ {x} : TradeKeyLess(x, y)
         IN  <<first>> \o SortTrades(ts \ {first})

\* TradesForRebuild: the account's trade rows in replay order
TradesForRebuild(accountID) ==
    SortTrades({t \in trades : t.account_id = accountID})

(* READ COMMITTED: a statement of w's transaction sees the committed rows  *)
(* and w's own changes; a row changed by another open transaction is       *)
(* locked until that transaction ends.                                     *)
Visible(w) ==
    {r \in positions : r.id \notin txDel[w] /\ r.id \notin Ids(txRows[w])}
        \cup txRows[w]

OthersLocked(w) == UNION {txDel[v] \cup Ids(txRows[v]) : v \in Workers \ {w}}
OthersPending(w) == UNION {txRows[v] : v \in Workers \ {w}}

\* the statements of a store call, where a storage failure can strike
TxSteps == {"tx_insert", "tx_select", "tx_write", "tx_commit",
            "rb_delete", "rb_wait", "rb_scan",
            "acct_select", "acct_insert", "avg_select"}

\* defer tx.Rollback(ctx): nothing of the transaction stays
Rollback(w) ==
    /\ txTrades' = [txTrades EXCEPT ![w] = {}]
    /\ txDel' = [txDel EXCEPT ![w] = {}]
    /\ txRows' = [txRows EXCEPT ![w] = {}]
    /\ txRead' = [txRead EXCEPT ![w] = Null]
    /\ rbTrades' = [rbTrades EXCEPT ![w] = <<>>]

\* variant: the error return keeps what the transaction has written so far
AbortKeepingWrites(w, err) ==
    /\ positions' = {r \in positions : r.id \notin txDel[w] /\ r.id \notin Ids(txRows[w])}
                        \cup txRows[w]
    /\ trades' = trades \cup txTrades[w]
    /\ Rollback(w)
    /\ pc' = [pc EXCEPT ![w] = "ret"]
    /\ ret' = [ret EXCEPT ![w] = [NoRet EXCEPT !.err = err]]
    /\ UNCHANGED <<accounts, call, okTrades, ordered>>

\* the store call of w returns (inserted, err) without committing
Abort(w, err) ==
    /\ Rollback(w)
    /\ pc' = [pc EXCEPT ![w] = "ret"]
    /\ ret' = [ret EXCEPT ![w] = [NoRet EXCEPT !.err = err]]
    /\ UNCHANGED <<storeVars, call, okTrades, ordered>>

\* variant: an INSERT without the ON CONFLICT clause's check
NoTradeIdConflict(t, rows) == FALSE

\* ON CONFLICT (trade_id) DO NOTHING: the INSERT of t affects no row when a
\* row with its trade_id is in the log
TradeIdConflict(t, rows) == t.trade_id \in TradeIds(rows)

\* variant: InsertTrade on the pool instead of the transaction (autocommit)
InsertTradeOnPool(w, t) ==
    /\ trades' = trades \cup {t}
    /\ UNCHANGED txTrades

\* InsertTrade's INSERT ... ON CONFLICT (trade_id) DO NOTHING inside w's
\* transaction: the row stays pending until the commit
InsertTradeRow(w, t) ==
    /\ txTrades' = [txTrades EXCEPT ![w] = {t}]
    /\ UNCHANGED trades

\* InsertTradeAndUpdatePosition up to InsertTrade's result.  The INSERT
\* waits while another open transaction holds an uncommitted row with the
\* same trade_id; a committed one makes it a no-op (inserted = false); the
\* foreign key to ledger_accounts fails it for an unknown account.
InsertTrade(w) ==
    /\ pc[w] = "tx_insert"
    /\ LET t == call[w].trade[1] IN
       /\ \A v \in Workers \ {w} : t.trade_id \notin TradeIds(txTrades[v])
       /\ IF TradeIdConflict(t, trades)
          THEN /\ pc' = [pc EXCEPT ![w] = "tx_commit"]
               /\ call' = [call EXCEPT ![w].inserted = FALSE]
               /\ UNCHANGED <<storeVars, txVars, ret, okTrades, ordered>>
          ELSE IF t.account_id \notin {a.id : a \in accounts}
          THEN Abort(w, "fk_violation")
          ELSE /\ InsertTradeRow(w, t)
               /\ pc' = [pc EXCEPT ![w] = "tx_select"]
               /\ call' = [call EXCEPT ![w].inserted = TRUE]
               /\ UNCHANGED <<accounts, positions, txDel, txRows, txRead,
                              rbTrades, ret, okTrades, ordered>>
    /\ UNCHANGED <<stream, hnd, faults, ncalls>>

\* the SELECT of upsertSpotPosition / upsertFuturesPosition
SelectPosition(w) ==
    /\ pc[w] = "tx_select"
    /\ LET rows == OpenRows(Visible(w), KeyOf(call[w].trade[1])) IN
       IF rows = {}
       THEN txRead' = [txRead EXCEPT ![w] = Null]
       ELSE \E r \in rows : txRead' = [txRead EXCEPT ![w] = Some(r)]
    /\ pc' = [pc EXCEPT ![w] = "tx_write"]
    /\ UNCHANGED <<storeVars, call, txTrades, txDel, txRows, rbTrades, ret,
                   stream, hnd, okTrades, ordered, faults, ncalls>>

\* where the call goes after UpsertPosition returned nil: to the commit, or
\* to the next trade of RebuildPositions' loop
AfterUpsert(w) ==
    IF call[w].op = "rebuild" /\ rbTrades[w] # <<>>
    THEN /\ call' = [call EXCEPT ![w].trade = Some(Head(rbTrades[w]))]
         /\ rbTrades' = [rbTrades EXCEPT ![w] = Tail(rbTrades[w])]
         /\ pc' = [pc EXCEPT ![w] = "tx_select"]
    ELSE /\ pc' = [pc EXCEPT ![w] = "tx_commit"]
         /\ UNCHANGED <<call, rbTrades>>

\* the INSERT / UPDATE that upsert*Position executes after its SELECT.  An
\* INSERT waits for open transactions holding a conflicting row and fails on
\* a conflicting visible row; an UPDATE ... WHERE id waits for the row's
\* lock, then changes the latest version of the row (no row: no error).
WritePosition(w) ==
    /\ pc[w] = "tx_write"
    /\ LET stmt == Statement(txRead[w], call[w].trade[1]) IN
       CASE stmt.op = "none" ->
              /\ AfterUpsert(w)
              /\ UNCHANGED <<storeVars, txTrades, txDel, txRows, txRead, ret,
                             okTrades, ordered>>
         [] stmt.op = "insert" ->
              LET r == stmt.row[1] IN
              /\ \A v \in OthersPending(w) : ~ConflictsWith(r, v)
              /\ \A v \in positions :
                    v.id \in OthersLocked(w) => ~ConflictsWith(r, v)
              /\ IF \E v \in Visible(w) : ConflictsWith(r, v)
                 THEN Abort(w, "unique_violation")
                 ELSE /\ txRows' = [txRows EXCEPT ![w] = @ \cup {r}]
                      /\ AfterUpsert(w)
                      /\ UNCHANGED <<storeVars, txTrades, txDel, txRead, ret,
                                     okTrades, ordered>>
         [] stmt.op = "update" ->
              /\ stmt.id \in Ids(txRows[w]) \/ stmt.id \notin OthersLocked(w)
              /\ txRows' = [txRows EXCEPT ![w] =
                    IF stmt.id \in Ids(txRows[w])
                    THEN {IF r.id = stmt.id THEN ApplyUpdate(stmt, r) ELSE r : r \in @}
                    ELSE IF stmt.id \in txDel[w]
                    THEN @
                    ELSE @ \cup {ApplyUpdate(stmt, r) : r \in {x \in positions : x.id = stmt.id}}]
              /\ AfterUpsert(w)
              /\ UNCHANGED <<storeVars, txTrades, txDel, txRead, ret,
                             okTrades, ordered>>
    /\ UNCHANGED <<stream, hnd, faults, ncalls>>

\* the position rows after w's transaction commits
Installed(w) ==
    {r \in positions : r.id \notin txDel[w] /\ r.id \notin Ids(txRows[w])}
        \cup txRows[w]

\* tx.Commit: the transaction's rows become the committed ones, at once
Commit(w) ==
    /\ pc[w] = "tx_commit"
    /\ trades' = trades \cup txTrades[w]
    /\ positions' = Installed(w)
    /\ okTrades' = okTrades \cup TradeIds(txTrades[w])
    /\ ordered' = [a \in DOMAIN ordered |->
                     ordered[a] /\ \A t \in txTrades[w] : \A x \in trades :
                        (t.account_id = a /\ x.account_id = a) => TradeKeyLess(x, t)]
    /\ Rollback(w)
    /\ pc' = [pc EXCEPT ![w] = "ret"]
    /\ ret' = [ret EXCEPT ![w] = [NoRet EXCEPT !.inserted = call[w].inserted]]
    /\ UNCHANGED <<accounts, call, stream, hnd, faults, ncalls>>

\* a storage failure or a cancelled context inside a store call: the call
\* returns the error, the deferred Rollback undoes the transaction
Fault(w) ==
    /\ pc[w] \in TxSteps
    /\ faults < MaxFaults
    /\ faults' = faults + 1
    /\ Abort(w, "fault")
    /\ UNCHANGED <<stream, hnd, ncalls>>

-----------------------------------------------------------------------------
(* RebuildPositions. *)

\* DELETE FROM ledger_positions WHERE account_id = $1: the statement takes
\* the committed rows of the account; while one of them is locked by another
\* transaction it waits (rb_wait) and, once free, deletes the rows of its
\* snapshot that still exist.
RebuildDelete(w) ==
    /\ pc[w] = "rb_delete"
    /\ LET targets == Ids({r \in positions : r.account_id = call[w].account}) IN
       IF targets \cap OthersLocked(w) = {}
       THEN /\ txDel' = [txDel EXCEPT ![w] = targets]
            /\ pc' = [pc EXCEPT ![w] = "rb_scan"]
            /\ UNCHANGED call
       ELSE /\ call' = [call EXCEPT ![w].snap = targets]
            /\ pc' = [pc EXCEPT ![w] = "rb_wait"]
            /\ UNCHANGED txDel
    /\ UNCHANGED <<storeVars, txTrades, txRows, txRead, rbTrades, ret,
                   stream, hnd, okTrades, ordered, faults, ncalls>>

RebuildDeleteResume(w) ==
    /\ pc[w] = "rb_wait"
    /\ call[w].snap \cap OthersLocked(w) = {}
    /\ txDel' = [txDel EXCEPT ![w] = call[w].snap \cap Ids(positions)]
    /\ call' = [call EXCEPT ![w].snap = {}]
    /\ pc' = [pc EXCEPT ![w] = "rb_scan"]
    /\ UNCHANGED <<storeVars, txTrades, txRows, txRead, rbTrades, ret,
                   stream, hnd, okTrades, ordered, faults, ncalls>>

\* trades, err := r.TradesForRebuild(ctx, tx, accountID), then the loop's
\* first UpsertPosition (or the commit when there is no trade)
RebuildScan(w) ==
    /\ pc[w] = "rb_scan"
    /\ LET ts == TradesForRebuild(call[w].account) IN
       IF ts = <<>>
       THEN /\ pc' = [pc EXCEPT ![w] = "tx_commit"]
            /\ UNCHANGED <<call, rbTrades>>
       ELSE /\ call' = [call EXCEPT ![w].trade = Some(Head(ts))]
            /\ rbTrades' = [rbTrades EXCEPT ![w] = Tail(ts)]
            /\ pc' = [pc EXCEPT ![w] = "tx_select"]
    /\ UNCHANGED <<storeVars, txTrades, txDel, txRows, txRead, ret,
                   stream, hnd, okTrades, ordered, faults, ncalls>>

-----------------------------------------------------------------------------
(* GetOrCreateAccount and GetAvgEntryPrice: statements on the pool, each   *)
(* its own transaction.                                                    *)

\* the store call returns a value without a transaction to end
Return(w, val) ==
    /\ pc' = [pc EXCEPT ![w] = "ret"]
    /\ ret' = [ret EXCEPT ![w] = [NoRet EXCEPT !.val = val]]

\* SELECT id, name, type, created_at FROM ledger_accounts WHERE id = $1
AccountSelect(w) ==
    /\ pc[w] = "acct_select"
    /\ IF call[w].account \in {a.id : a \in accounts}
       THEN Return(w, R(0))
       ELSE /\ pc' = [pc EXCEPT ![w] = "acct_insert"]
            /\ UNCHANGED ret
    /\ UNCHANGED <<storeVars, call, txVars, stream, hnd, okTrades, ordered, faults, ncalls>>

\* INSERT INTO ledger_accounts (id, name, type), then the recursive call
AccountInsert(w) ==
    /\ pc[w] = "acct_insert"
    /\ IF call[w].account \in {a.id : a \in accounts}
       THEN Abort(w, "unique_violation")
       ELSE /\ accounts' = accounts \cup
                    {[id |-> call[w].account, name |-> call[w].account,
                      type |-> InferAccountType(call[w].account)]}
            /\ pc' = [pc EXCEPT ![w] = "acct_select"]
            /\ UNCHANGED <<trades, positions, call, txVars, ret, okTrades, ordered>>
    /\ UNCHANGED <<stream, hnd, faults, ncalls>>

\* GetAvgEntryPrice: the open position's avg_entry_price, 0 on ErrNoRows
GetAvgEntryPrice(w) ==
    /\ pc[w] = "avg_select"
    /\ LET rows == OpenRows(positions, call[w].key) IN
       IF rows = {}
       THEN Return(w, R(0))
       ELSE \E r \in rows : Return(w, r.avg_entry_price)
    /\ UNCHANGED <<storeVars, call, txVars, stream, hnd, okTrades, ordered, faults, ncalls>>

\* one step of a store call, whoever called it
StoreStep(w) ==
    \/ InsertTrade(w)
    \/ SelectPosition(w)
    \/ WritePosition(w)
    \/ Commit(w)
    \/ RebuildDelete(w)
    \/ RebuildDeleteResume(w)
    \/ RebuildScan(w)
    \/ AccountSelect(w)
    \/ AccountInsert(w)
    \/ GetAvgEntryPrice(w)

-----------------------------------------------------------------------------
(* Direct callers of the Repository. *)

StoreEvents == {EventTable[i] : i \in {1, 2, 3, 4}}
StoreAccounts == {"a"}

\* pool.Begin of InsertTradeAndUpdatePosition(trade)
StartITUP(w, trade) ==
    /\ call' = [call EXCEPT ![w] = [NoCall EXCEPT !.op = "itup", !.trade = Some(trade),
                                                  !.account = trade.account_id]]
    /\ pc' = [pc EXCEPT ![w] = "tx_insert"]

\* pool.Begin of RebuildPositions(accountID)
StartRebuild(w, accountID) ==
    /\ call' = [call EXCEPT ![w] = [NoCall EXCEPT !.op = "rebuild", !.account = accountID]]
    /\ pc' = [pc EXCEPT ![w] = "rb_delete"]

StartGetOrCreateAccount(w, accountID) ==
    /\ call' = [call EXCEPT ![w] = [NoCall EXCEPT !.op = "account", !.account = accountID]]
    /\ pc' = [pc EXCEPT ![w] = "acct_select"]

StartGetAvgEntryPrice(w, trade) ==
    /\ call' = [call EXCEPT ![w] = [NoCall EXCEPT !.op = "avg", !.trade = Some(trade),
                                                  !.account = trade.account_id,
                                                  !.key = KeyOf(trade)]]
    /\ pc' = [pc EXCEPT ![w] = "avg_select"]

CallITUP(w) ==
    /\ pc[w] \in {"idle", "ret"}
    /\ ncalls < MaxCalls
    /\ ncalls' = ncalls + 1
    /\ ret' = [ret EXCEPT ![w] = NoRet]
    /\ \E e \in StoreEvents : StartITUP(w, ToDomain(e)[1])
    /\ UNCHANGED <<storeVars, txVars, stream, hnd, okTrades, ordered, faults>>

CallRebuild(w) ==
    /\ pc[w] \in {"idle", "ret"}
    /\ ncalls < MaxCalls
    /\ ncalls' = ncalls + 1
    /\ ret' = [ret EXCEPT ![w] = NoRet]
    /\ \E a \in StoreAccounts : StartRebuild(w, a)
    /\ UNCHANGED <<storeVars, txVars, stream, hnd, okTrades, ordered, faults>>

CallGetOrCreateAccount(w) ==
    /\ pc[w] \in {"idle", "ret"}
    /\ ncalls < MaxCalls
    /\ ncalls' = ncalls + 1
    /\ ret' = [ret EXCEPT ![w] = NoRet]
    /\ \E a \in StoreAccounts : StartGetOrCreateAccount(w, a)
    /\ UNCHANGED <<storeVars, txVars, stream, hnd, okTrades, ordered, faults>>

CallGetAvgEntryPrice(w) ==
    /\ pc[w] \in {"idle", "ret"}
    /\ ncalls < MaxCalls
    /\ ncalls' = ncalls + 1
    /\ ret' = [ret EXCEPT ![w] = NoRet]
    /\ \E e \in StoreEvents : StartGetAvgEntryPrice(w, ToDomain(e)[1])
    /\ UNCHANGED <<storeVars, txVars, stream, hnd, okTrades, ordered, faults>>

-----------------------------------------------------------------------------
AccountIds == {"a", "b", "a-X"}

Init ==
    /\ accounts = {}
    /\ trades = {}
    /\ positions = {}
    /\ pc = [w \in Workers |-> "idle"]
    /\ call = [w \in Workers |-> NoCall]
    /\ txTrades = [w \in Workers |-> {}]
    /\ txDel = [w \in Workers |-> {}]
    /\ txRows = [w \in Workers |-> {}]
    /\ txRead = [w \in Workers |-> Null]
    /\ rbTrades = [w \in Workers |-> <<>>]
    /\ ret = [w \in Workers |-> NoRet]
    /\ stream = <<>>
    /\ hnd = [w \in Workers |-> Null]
    /\ okTrades = {}
    /\ ordered = [a \in AccountIds |-> TRUE]
    /\ faults = 0
    /\ ncalls = 0

\* the Repository called concurrently by two goroutines
Next ==
    \E w \in Callers :
        \/ CallITUP(w)
        \/ CallRebuild(w)
        \/ CallGetOrCreateAccount(w)
        \/ CallGetAvgEntryPrice(w)
        \/ StoreStep(w)
        \/ Fault(w)

Spec == Init /\ [][Next]_vars


-----------------------------------------------------------------------------
(* One goroutine calling the Repository: every call ends before the next   *)
(* begins.                                                                 *)

SeqCaller == "w1"
SeqEvents == {EventTable[i] : i \in {1, 2, 3, 4, 5, 6, 7, 13, 14}}
SeqAccounts == {"a", "b", "a-X"}

SeqITUP ==
    /\ pc[SeqCaller] \in {"idle", "ret"}
    /\ ncalls < MaxSeqCalls
    /\ ncalls' = ncalls + 1
    /\ ret' = [ret EXCEPT ![SeqCaller] = NoRet]
    /\ \E e \in SeqEvents : StartITUP(SeqCaller, ToDomain(e)[1])
    /\ UNCHANGED <<storeVars, txVars, stream, hnd, okTrades, ordered, faults>>

SeqRebuild ==
    /\ pc[SeqCaller] \in {"idle", "ret"}
    /\ ncalls < MaxSeqCalls
    /\ ncalls' = ncalls + 1
    /\ ret' = [ret EXCEPT ![SeqCaller] = NoRet]
    /\ \E a \in SeqAccounts : StartRebuild(SeqCaller, a)
    /\ UNCHANGED <<storeVars, txVars, stream, hnd, okTrades, ordered, faults>>

SeqGetOrCreateAccount ==
    /\ pc[SeqCaller] \in {"idle", "ret"}
    /\ ncalls < MaxSeqCalls
    /\ ncalls' = ncalls + 1
    /\ ret' = [ret EXCEPT ![SeqCaller] = NoRet]
    /\ \E a \in SeqAccounts : StartGetOrCreateAccount(SeqCaller, a)
    /\ UNCHANGED <<storeVars, txVars, stream, hnd, okTrades, ordered, faults>>

NextSeq ==
    \/ SeqITUP
    \/ SeqRebuild
    \/ SeqGetOrCreateAccount
    \/ InsertTrade(SeqCaller)
    \/ SelectPosition(SeqCaller)
    \/ WritePosition(SeqCaller)
    \/ Commit(SeqCaller)
    \/ RebuildDelete(SeqCaller)
    \/ RebuildScan(SeqCaller)
    \/ AccountSelect(SeqCaller)
    \/ AccountInsert(SeqCaller)
    \/ Fault(SeqCaller)

SpecSeq == Init /\ [][NextSeq]_vars

-----------------------------------------------------------------------------
(* Concurrent InsertTradeAndUpdatePosition calls, no rebuild.              *)

NextITUP ==
    \E w \in Callers :
        \/ CallITUP(w)
        \/ CallGetOrCreateAccount(w)
        \/ InsertTrade(w)
        \/ SelectPosition(w)
        \/ WritePosition(w)
        \/ Commit(w)
        \/ AccountSelect(w)
        \/ AccountInsert(w)
        \/ Fault(w)

SpecITUP == Init /\ [][NextITUP]_vars

-----------------------------------------------------------------------------
(* Properties of the store. *)

\* w takes a step of its running InsertTradeAndUpdatePosition call
ITUPStep(w) == call[w].op = "itup" /\ pc[w] \in TxSteps /\ pc'[w] # pc[w]

\* w's store call returns in this step
Returns(w) == pc[w] \in TxSteps /\ pc'[w] = "ret"

\* C1: InsertTradeAndUpdatePosition(T) called when T's trade_id is already in
\* the log changes neither the trade log nor any position row in any of its
\* steps, and returns inserted = false, with no error unless the storage
\* itself failed during the call.
C1_SecondCallIsNoOp ==
    [][\A w \in Workers :
          (ITUPStep(w) /\ call[w].trade[1].trade_id \in TradeIds(trades)) =>
             /\ trades' = trades
             /\ positions' = positions
             /\ Returns(w) =>
                  /\ ~ret'[w].inserted
                  /\ faults' = faults => ret'[w].err = "none"]_vars

\* a second call has returned inserted = false, no error
C1_Witness ==
    \E w \in Workers :
        /\ pc[w] = "ret" /\ call[w].op = "itup"
        /\ ret[w].err = "none" /\ ~ret[w].inserted
        /\ call[w].trade[1].trade_id \in okTrades
        /\ \E r \in positions : KeyOf(r) = KeyOf(call[w].trade[1])

AllKeys == {KeyOf(r) : r \in positions} \cup {KeyOf(t) : t \in trades}

\* C2: in every reachable state, whatever calls ran and however they
\* interleaved, at most one committed position row per (account_id, symbol,
\* market_type) has status = open.
C2_OneOpenPerKey ==
    \A key \in AllKeys : Cardinality(OpenRows(positions, key)) <= 1

\* a call that tried to open a second position for a key was refused by the
\* unique index (its id differs from the open row's)
C2_Witness ==
    \E w \in Workers :
        /\ pc[w] = "ret" /\ call[w].op = "itup"
        /\ ret[w].err = "unique_violation"
        /\ \E r \in OpenRows(positions, KeyOf(call[w].trade[1])) :
              r.id # PosID(call[w].trade[1])

\* the position rows after the statement that w's upsert built from the row
\* it had read is applied to the committed rows
Effect(w) ==
    LET stmt == Statement(txRead[w], call[w].trade[1]) IN
    CASE stmt.op = "none" -> positions
      [] stmt.op = "insert" -> positions \cup {stmt.row[1]}
      [] stmt.op = "update" ->
            {IF r.id = stmt.id THEN ApplyUpdate(stmt, r) ELSE r : r \in positions}

\* C3: InsertTradeAndUpdatePosition is all-or-nothing.  The committed trade
\* log and position rows change only in the step in which a call commits; a
\* call that returns an error has persisted nothing; a call that returns
\* inserted = true has added its trade row and made its position change in
\* that one step, a call that returns inserted = false has changed nothing.
C3_AllOrNothing ==
    [][/\ (trades' # trades \/ positions' # positions) =>
             \E w \in Workers : pc[w] = "tx_commit" /\ Returns(w) /\ ret'[w].err = "none"
       /\ \A w \in Workers :
             (ITUPStep(w) /\ Returns(w)) =>
                IF ret'[w].err = "none" /\ ret'[w].inserted
                THEN /\ call[w].trade[1] \notin trades
                     /\ trades' = trades \cup {call[w].trade[1]}
                     /\ positions' = Effect(w)
                ELSE /\ trades' = trades
                     /\ positions' = positions
                     /\ txTrades'[w] = {} /\ txRows'[w] = {}]_vars

\* a call whose UpsertPosition failed after its trade row had been inserted
\* has returned, and the trade row is not in the log
C3_Witness ==
    \E w \in Workers :
        /\ pc[w] = "ret" /\ call[w].op = "itup"
        /\ ret[w].err = "unique_violation"
        /\ call[w].trade[1].trade_id \notin TradeIds(trades)

RowsOf(rows, a) == {r \in rows : r.account_id = a}

\* C4: when the trades of an account were ingested one call at a time in
\* ascending (timestamp, trade_id) order, RebuildPositions(account) fails only
\* on a storage failure and, when it commits, leaves the account's position
\* rows equal to the rows the incremental processing had produced.
C4_RebuildEquivalence ==
    [][\A a \in AccountIds :
          (/\ call[SeqCaller].op = "rebuild" /\ call[SeqCaller].account = a
           /\ Returns(SeqCaller) /\ ordered[a]) =>
             /\ RowsOf(positions', a) = RowsOf(positions, a)
             /\ faults' = faults => ret'[SeqCaller].err = "none"]_vars

\* a rebuild has committed for an account ingested in order, with a closed
\* and a later open position
C4_Witness ==
    /\ pc[SeqCaller] = "ret" /\ call[SeqCaller].op = "rebuild"
    /\ ret[SeqCaller].err = "none" /\ faults = 0
    /\ ordered[call[SeqCaller].account]
    /\ \E r1, r2 \in RowsOf(positions, call[SeqCaller].account) :
          r1.status = "closed" /\ r2.status = "open"

\* the orders in which the trades of a set can be applied one after another
Orders(ts) ==
    {f \in [1..Cardinality(ts) -> ts] : \A i, j \in 1..Cardinality(ts) : f[i] = f[j] => i = j}

\* C5: with InsertTradeAndUpdatePosition calls running concurrently and no
\* rebuild, the committed position rows of every key equal the result of
\* applying the key's committed trades one after another in some order.
C5_Serializable ==
    \A key \in AllKeys :
        \E f \in Orders({t \in trades : KeyOf(t) = key}) :
            LET r == Replay({}, f) IN
            r.ok /\ r.rows = {p \in positions : KeyOf(p) = key}

-----------------------------------------------------------------------------
(* The JetStream consumer (ingest.Consumer).  A message is                 *)
(* [payload, deliveries, state, calls, outcome]: payload 0 is a body that  *)
(* is not JSON, payload k > 0 the JSON encoding of EventTable[k]; calls    *)
(* are the Term / Nak / Ack calls made on the current delivery, the first  *)
(* of which decides the message's state.                                   *)

IngestPayloads == {0, 1, 2, 3, 9, 22}

\* json.Unmarshal(msg.Data(), &event): Null on a decode error
Unmarshal(payload) ==
    IF payload \in 1..Len(EventTable) THEN Some(EventTable[payload]) ELSE Null

\* variant: the callback acks whatever handleMessage returned
AlwaysAck(err) == "ack"

\* the callback of cons.Consume: Nak on an error of handleMessage, else Ack
Disposition(err) == IF err # "none" THEN "nak" ELSE "ack"

\* the state of a message after the first Term / Nak / Ack of a delivery;
\* MaxDeliver deliveries without an ack end the redelivery
Settle(m, first) ==
    CASE first = "ack" -> "acked"
      [] first = "term" -> "termed"
      [] first = "nak" -> IF m.deliveries >= MaxDeliver THEN "dropped" ELSE "pending"

\* the upstream publishes one of payloads
PublishOf(payloads) ==
    /\ Len(stream) < MaxMsgs
    /\ \E p \in payloads :
          stream' = Append(stream, [payload |-> p, deliveries |-> 0, state |-> "pending",
                                    calls |-> <<>>, outcome |-> "none"])
    /\ UNCHANGED <<storeVars, pc, call, txVars, ret, hnd, okTrades, ordered, faults, ncalls>>

\* the upstream publishes a trade event (or a malformed body)
Publish == PublishOf(IngestPayloads)

\* a delivery: handleMessage up to its first store call.  Messages reach the
\* callback one at a time; the first deliveries come in stream order.
HandleMessage ==
    /\ pc[ConsumerW] = "idle"
    /\ \E i \in DOMAIN stream :
        /\ stream[i].state = "pending"
        /\ \A j \in 1..(i - 1) : stream[j].deliveries > 0
        /\ LET m == [stream[i] EXCEPT !.deliveries = @ + 1, !.calls = <<>>,
                                      !.outcome = "none"]
               event == Unmarshal(m.payload)
               rejected == \/ event = Null
                           \/ ~Validate(event[1])
                           \/ ToDomain(event[1]) = Null
           IN  IF rejected
               THEN \* msg.Term(); return nil -- and the callback's msg.Ack()
                    /\ stream' = [stream EXCEPT ![i] =
                          [m EXCEPT !.calls = <<"term", Disposition("none")>>,
                                    !.state = Settle(m, "term"),
                                    !.outcome = "rejected"]]
                    /\ UNCHANGED <<pc, call, hnd>>
               ELSE /\ stream' = [stream EXCEPT ![i] = [m EXCEPT !.state = "inflight"]]
                    /\ hnd' = [hnd EXCEPT ![ConsumerW] =
                                  Some([msg |-> i, trade |-> ToDomain(event[1])[1]])]
                    /\ StartGetOrCreateAccount(ConsumerW, event[1].account_id)
    /\ UNCHANGED <<storeVars, txVars, ret, okTrades, ordered, faults, ncalls>>

\* handleMessage returns err to the callback, which naks or acks
Finish(err) ==
    LET i == hnd[ConsumerW][1].msg
        m == stream[i]
        d == Disposition(err)
    IN  /\ stream' = [stream EXCEPT ![i] =
              [m EXCEPT !.calls = <<d>>, !.state = Settle(m, d),
                        !.outcome = IF err # "none" THEN "error" ELSE "ok"]]
        /\ hnd' = [hnd EXCEPT ![ConsumerW] = Null]
        /\ pc' = [pc EXCEPT ![ConsumerW] = "idle"]
        /\ UNCHANGED call

\* handleMessage after a store call returned
HandleReturn ==
    /\ pc[ConsumerW] = "ret"
    /\ LET trade == hnd[ConsumerW][1].trade
           r == ret[ConsumerW]
       IN  IF r.err # "none"
           THEN Finish(r.err)
           ELSE CASE call[ConsumerW].op = "account" ->
                       /\ IF trade.side = "sell"
                          THEN StartGetAvgEntryPrice(ConsumerW, trade)
                          ELSE StartITUP(ConsumerW, trade)
                       /\ UNCHANGED <<stream, hnd>>
                  [] call[ConsumerW].op = "avg" ->
                       LET stamped == CostBasisForTrade(trade, r.val) IN
                       /\ hnd' = [hnd EXCEPT ![ConsumerW] = Some([@[1] EXCEPT !.trade = stamped])]
                       /\ StartITUP(ConsumerW, stamped)
                       /\ UNCHANGED stream
                  [] call[ConsumerW].op = "itup" -> Finish("none")
    /\ UNCHANGED <<storeVars, txVars, ret, okTrades, ordered, faults, ncalls>>

NextIngest ==
    \/ Publish
    \/ HandleMessage
    \/ HandleReturn
    \/ InsertTrade(ConsumerW)
    \/ SelectPosition(ConsumerW)
    \/ WritePosition(ConsumerW)
    \/ Commit(ConsumerW)
    \/ AccountSelect(ConsumerW)
    \/ AccountInsert(ConsumerW)
    \/ GetAvgEntryPrice(ConsumerW)
    \/ Fault(ConsumerW)

SpecIngest == Init /\ [][NextIngest]_vars

-----------------------------------------------------------------------------
(* Properties of the consumer. *)

\* the trade_id carried by a decodable message
MsgTradeId(m) == Unmarshal(m.payload)[1].trade_id

\* C6: a delivery that ends in the acked state ends so in the step in which
\* InsertTradeAndUpdatePosition returned without error, by a single Ack; a
\* delivery during which GetOrCreateAccount, GetAvgEntryPrice or
\* InsertTradeAndUpdatePosition returned an error ends by a single Nak and
\* leaves the message unacked; the trade of every acked message is in the
\* trade log.
C6_AckAfterCommit ==
    [][\A i \in DOMAIN stream' :
          LET m == stream'[i] IN
          /\ m.state = "acked" => MsgTradeId(m) \in TradeIds(trades')
          /\ (i \in DOMAIN stream /\ stream[i].state = "inflight" /\ m.state # "inflight") =>
                /\ pc[ConsumerW] = "ret"
                /\ IF ret[ConsumerW].err # "none"
                   THEN m.calls = <<"nak">> /\ m.state \in {"pending", "dropped"}
                   ELSE /\ call[ConsumerW].op = "itup"
                        /\ m.calls = <<"ack">> /\ m.state = "acked"]_vars

\* a message was nak'd on a store error, redelivered and then acked
C6_Witness ==
    \E i \in DOMAIN stream :
        /\ stream[i].state = "acked" /\ stream[i].deliveries >= 2
        /\ MsgTradeId(stream[i]) \in okTrades

\* payloads that do not decode, or decode to an event of InvalidEvents
InvalidPayloads ==
    {0} \cup {k \in 1..Len(EventTable) : EventTable[k] \in InvalidEvents}

\* C7: a message whose payload fails JSON decoding or validation is
\* delivered at most once and terminated in the step that receives it (Term
\* is the first call made on it); that step changes no account, trade or
\* position row and starts no store call.
C7_InvalidTerminated ==
    [][\A i \in DOMAIN stream' :
          stream'[i].payload \in InvalidPayloads =>
             /\ stream'[i].deliveries <= 1
             /\ stream'[i].state \in {"pending", "termed"}
             /\ stream'[i].state = "termed" =>
                  /\ Head(stream'[i].calls) = "term"
                  /\ stream[i].state = "pending" =>
                       /\ accounts' = accounts
                       /\ trades' = trades
                       /\ positions' = positions
                       /\ pc'[ConsumerW] = "idle"]_vars

\* an undecodable message and an invalid event have both been terminated
C7_Witness ==
    \E i, j \in DOMAIN stream :
        /\ stream[i].payload = 0 /\ stream[i].state = "termed"
        /\ stream[j].payload \in InvalidPayloads \ {0} /\ stream[j].state = "termed"

\* C8: while no storage failure has occurred, no valid trade event is dropped
\* by exhausting its MaxDeliver deliveries.
C8_NeverDropped ==
    \A i \in DOMAIN stream :
        (stream[i].payload \notin InvalidPayloads /\ stream[i].state = "dropped")
            => faults > 0

-----------------------------------------------------------------------------
(* The import handler (api.Server.handleImportTrades), one request at a    *)
(* time.  hnd[h] holds the request's batch and the handler's locals; after *)
(* the response, its status.                                               *)

Importer == "h1"

\* a request body with MaxImportTrades + 1 trades
TooMany == [i \in 1..(MaxImportTrades + 1) |-> EventTable[1]]

ImportBatches ==
    { <<>>,
      <<EventTable[1], EventTable[3]>>,
      <<EventTable[2]>>,
      <<EventTable[1], EventTable[9]>>,
      <<EventTable[8], EventTable[1]>>,
      <<EventTable[1], EventTable[1]>>,
      <<EventTable[1], EventTable[2], EventTable[3]>>,
      TooMany }

\* variant: a validation loop that stops after the first trade
FirstValid(batch) == Validate(batch[1])

\* the validation loop: no event of the batch fails Validate
AllValid(batch) == \A i \in DOMAIN batch : Validate(batch[i])

\* sort.Slice by the Timestamp string: not stable, so any arrangement of the
\* batch in which no later element's string is smaller
SortedByTimestamp(batch) ==
    LET n == Len(batch)
        perms == {f \in [1..n -> 1..n] : \A i, j \in 1..n : f[i] = f[j] => i = j}
    IN  {q \in {[i \in 1..n |-> batch[f[i]]] : f \in perms} :
            \A i, j \in 1..n : i < j => ~StringLess(q[j].timestamp, q[i].timestamp)}

\* variant: 422 as soon as one trade failed
AnyErrorStatus(errors, inserted) ==
    IF errors > 0 THEN 422 ELSE 200

\* the response status once the loops are done
ResponseStatus(errors, inserted) ==
    IF errors > 0 /\ inserted = 0 THEN 422 ELSE 200

\* the handler's locals: resp (total, inserted, duplicates, errors, results),
\* affectedAccounts, the response status; history: seen is the batches that
\* earlier requests processed, before the committed rows when the request came
NoImport == [batch |-> <<>>, queue |-> <<>>, trade |-> Null, affected |-> {},
             todo |-> {}, total |-> 0, inserted |-> 0, duplicates |-> 0,
             errors |-> 0, results |-> <<>>, status |-> 0, seen |-> {},
             before |-> [trades |-> {}, positions |-> {}]]

\* resp.Results = append(resp.Results, result)
Result(id, status) == [trade_id |-> id, status |-> status]

\* history: the batches processed up to and including the last request
SeenBatches ==
    IF hnd[Importer] = Null THEN {}
    ELSE hnd[Importer][1].seen \cup
            (IF hnd[Importer][1].status \in {200, 422}
             THEN {hnd[Importer][1].batch} ELSE {})

\* handleImportTrades up to the end of validation and the sort, for a
\* request body of batches
ImportRequestOf(batches) ==
    /\ pc[Importer] = "idle"
    /\ ncalls < MaxImports
    /\ ncalls' = ncalls + 1
    /\ \E batch \in batches :
          IF Len(batch) = 0 \/ Len(batch) > MaxImportTrades \/ ~AllValid(batch)
          THEN /\ hnd' = [hnd EXCEPT ![Importer] =
                             Some([NoImport EXCEPT !.batch = batch, !.status = 400,
                                                   !.seen = SeenBatches])]
               /\ UNCHANGED pc
          ELSE /\ \E q \in SortedByTimestamp(batch) :
                     hnd' = [hnd EXCEPT ![Importer] =
                                Some([NoImport EXCEPT !.batch = batch, !.queue = q,
                                                      !.total = Len(batch),
                                                      !.seen = SeenBatches,
                                                      !.before = [trades |-> trades,
                                                                  positions |-> positions]])]
               /\ pc' = [pc EXCEPT ![Importer] = "imp_loop"]
    /\ UNCHANGED <<storeVars, call, txVars, ret, stream, okTrades, ordered, faults>>

ImportRequest == ImportRequestOf(ImportBatches)

\* the head of "for _, event := range req.Trades", up to GetOrCreateAccount
ImportLoop ==
    /\ pc[Importer] = "imp_loop"
    /\ LET st == hnd[Importer][1] IN
       IF st.queue = <<>>
       THEN /\ hnd' = [hnd EXCEPT ![Importer] = Some([st EXCEPT !.todo = st.affected])]
            /\ pc' = [pc EXCEPT ![Importer] = "imp_rebuild"]
            /\ UNCHANGED call
       ELSE LET trade == ToDomain(Head(st.queue)) IN
            IF trade = Null
            THEN /\ hnd' = [hnd EXCEPT ![Importer] =
                               Some([st EXCEPT !.queue = Tail(st.queue),
                                               !.errors = st.errors + 1,
                                               !.results = Append(st.results,
                                                   Result(Head(st.queue).trade_id, "error"))])]
                 /\ UNCHANGED <<pc, call>>
            ELSE /\ hnd' = [hnd EXCEPT ![Importer] =
                               Some([st EXCEPT !.queue = Tail(st.queue), !.trade = trade])]
                 /\ StartGetOrCreateAccount(Importer, trade[1].account_id)
    /\ UNCHANGED <<storeVars, txVars, ret, stream, okTrades, ordered, faults, ncalls>>

\* the loop body after a store call returned: an error marks the trade and
\* continues; RebuildPositions' error is only logged
ImportReturn ==
    /\ pc[Importer] = "ret"
    /\ LET st == hnd[Importer][1]
           trade == st.trade[1]
           r == ret[Importer]
           Continue(new) == /\ hnd' = [hnd EXCEPT ![Importer] = Some(new)]
                            /\ pc' = [pc EXCEPT ![Importer] = "imp_loop"]
                            /\ UNCHANGED call
       IN  CASE call[Importer].op = "rebuild" ->
                  /\ pc' = [pc EXCEPT ![Importer] = "imp_rebuild"]
                  /\ UNCHANGED <<hnd, call>>
             [] call[Importer].op # "rebuild" /\ r.err # "none" ->
                  Continue([st EXCEPT !.errors = st.errors + 1,
                                      !.results = Append(st.results,
                                                         Result(trade.trade_id, "error"))])
             [] call[Importer].op = "account" /\ r.err = "none" ->
                  /\ IF trade.side = "sell"
                     THEN StartGetAvgEntryPrice(Importer, trade)
                     ELSE StartITUP(Importer, trade)
                  /\ UNCHANGED hnd
             [] call[Importer].op = "avg" /\ r.err = "none" ->
                  LET stamped == CostBasisForTrade(trade, r.val) IN
                  /\ hnd' = [hnd EXCEPT ![Importer] = Some([st EXCEPT !.trade = Some(stamped)])]
                  /\ StartITUP(Importer, stamped)
             [] call[Importer].op = "itup" /\ r.err = "none" ->
                  IF r.inserted
                  THEN Continue([st EXCEPT !.inserted = st.inserted + 1,
                                           !.affected = st.affected \cup {trade.account_id},
                                           !.results = Append(st.results,
                                               Result(trade.trade_id, "inserted"))])
                  ELSE Continue([st EXCEPT !.duplicates = st.duplicates + 1,
                                           !.results = Append(st.results,
                                               Result(trade.trade_id, "duplicate"))])
    /\ UNCHANGED <<storeVars, txVars, ret, stream, okTrades, ordered, faults, ncalls>>

\* "for accountID := range affectedAccounts" (map order), then the response
ImportRebuild ==
    /\ pc[Importer] = "imp_rebuild"
    /\ LET st == hnd[Importer][1] IN
       IF st.todo = {}
       THEN /\ hnd' = [hnd EXCEPT ![Importer] =
                          Some([st EXCEPT !.status = ResponseStatus(st.errors, st.inserted)])]
            /\ pc' = [pc EXCEPT ![Importer] = "idle"]
            /\ UNCHANGED call
       ELSE \E a \in st.todo :
               /\ hnd' = [hnd EXCEPT ![Importer] = Some([st EXCEPT !.todo = st.todo \ {a}])]
               /\ StartRebuild(Importer, a)
    /\ UNCHANGED <<storeVars, txVars, ret, stream, okTrades, ordered, faults, ncalls>>

NextImport ==
    \/ ImportRequest
    \/ ImportLoop
    \/ ImportReturn
    \/ ImportRebuild
    \/ InsertTrade(Importer)
    \/ SelectPosition(Importer)
    \/ WritePosition(Importer)
    \/ Commit(Importer)
    \/ RebuildDelete(Importer)
    \/ RebuildScan(Importer)
    \/ AccountSelect(Importer)
    \/ AccountInsert(Importer)
    \/ GetAvgEntryPrice(Importer)
    \/ Fault(Importer)

SpecImport == Init /\ [][NextImport]_vars

-----------------------------------------------------------------------------
(* Properties of the import handler. *)

\* a batch the import must reject: empty, over the cap, or with an event of
\* InvalidEvents anywhere in it
BadBatch(batch) ==
    \/ Len(batch) = 0
    \/ Len(batch) > MaxImportTrades
    \/ \E i \in DOMAIN batch : batch[i] \in InvalidEvents

\* C9: a request whose trades array is empty, holds more than 1000 events or
\* holds an invalid event at any index is answered with status 400 in the
\* step that receives it: that step changes no account, trade or position
\* row, starts no store call and ends the handler.
C9_BadBatchRejected ==
    [][(pc[Importer] = "idle" /\ hnd'[Importer] # hnd[Importer]
            /\ BadBatch(hnd'[Importer][1].batch)) =>
          /\ hnd'[Importer][1].status = 400
          /\ pc'[Importer] = "idle"
          /\ accounts' = accounts /\ trades' = trades /\ positions' = positions
          /\ call' = call /\ txTrades' = txTrades /\ txRows' = txRows]_vars

\* a batch whose first event is valid and whose second is not was rejected
\* when the store already held trades
C9_Witness ==
    /\ pc[Importer] = "idle" /\ hnd[Importer] # Null
    /\ hnd[Importer][1].status = 400
    /\ Len(hnd[Importer][1].batch) = 2
    /\ hnd[Importer][1].batch[2] \in InvalidEvents
    /\ trades # {}

\* C10: once an import has answered and no storage failure has occurred, the
\* position rows of every account with a trade reported as inserted are those
\* of replaying the account's committed trades in (timestamp, trade_id)
\* order from no positions.
C10_ImportEqualsReplay ==
    (pc[Importer] = "idle" /\ hnd[Importer] # Null /\ faults = 0) =>
        \A a \in hnd[Importer][1].affected :
            LET r == Replay({}, TradesForRebuild(a)) IN
            r.ok /\ RowsOf(positions, a) = r.rows

\* the import handler has answered a processed batch
Answered ==
    /\ pc[Importer] = "idle" /\ hnd[Importer] # Null
    /\ hnd[Importer][1].status \in {200, 422}

\* number of results of one status for one trade id in a response
CountResults(results, id, status) ==
    Cardinality({i \in DOMAIN results :
                    results[i] = Result(id, status)})

\* C11: with no storage failure, an import of a batch that an earlier request
\* already processed answers inserted = 0, duplicates = total, errors = 0 and
\* leaves the trade rows and the position rows as they were; and a trade
\* event that occurs twice in a batch of new trades is reported inserted
\* once and duplicate once.
C11_ReimportIsNoOp ==
    (Answered /\ faults = 0) =>
        LET st == hnd[Importer][1] IN
        /\ st.batch \in st.seen =>
              /\ st.inserted = 0 /\ st.duplicates = st.total /\ st.errors = 0
              /\ trades = st.before.trades /\ positions = st.before.positions
        /\ \A i, j \in DOMAIN st.batch :
              (i < j /\ st.batch[i] = st.batch[j]
                 /\ ~TradeIdConflict(ToDomain(st.batch[i])[1], st.before.trades)) =>
                 /\ CountResults(st.results, st.batch[i].trade_id, "inserted") = 1
                 /\ CountResults(st.results, st.batch[i].trade_id, "duplicate") = 1

\* the trade ids of a sequence of events or results, with multiplicity
IdCount(seq, id) == Cardinality({i \in DOMAIN seq : seq[i].trade_id = id})

\* C12: every answered import of a processed batch has status 422 exactly
\* when errors > 0 and inserted = 0 and status 200 otherwise; its counts
\* satisfy total = inserted + duplicates + errors = number of results =
\* number of trades of the batch; and every trade of the batch has its
\* result, whatever happened to the trades before it.
C12_StatusAndCounts ==
    Answered =>
        LET st == hnd[Importer][1] IN
        /\ st.status = 422 <=> (st.errors > 0 /\ st.inserted = 0)
        /\ st.status = 200 <=> ~(st.errors > 0 /\ st.inserted = 0)
        /\ st.total = Len(st.batch)
        /\ st.total = st.inserted + st.duplicates + st.errors
        /\ st.total = Len(st.results)
        /\ st.inserted = Cardinality({i \in DOMAIN st.results :
                                         st.results[i].status = "inserted"})
        /\ st.duplicates = Cardinality({i \in DOMAIN st.results :
                                           st.results[i].status = "duplicate"})
        /\ st.errors = Cardinality({i \in DOMAIN st.results :
                                       st.results[i].status = "error"})
        /\ \A i \in DOMAIN st.batch :
              IdCount(st.results, st.batch[i].trade_id)
                  = IdCount(st.batch, st.batch[i].trade_id)

\* an import answered 200 in which a trade failed and a later one was
\* inserted
C12_Witness ==
    /\ Answered
    /\ hnd[Importer][1].status = 200
    /\ \E i, j \in DOMAIN hnd[Importer][1].results :
          /\ i < j
          /\ hnd[Importer][1].results[i].status = "error"
          /\ hnd[Importer][1].results[j].status = "inserted"

-----------------------------------------------------------------------------
(* Properties of RebuildPositions and of the rows it leaves. *)

\* a step of w's RebuildPositions call
RebuildStep(w) ==
    /\ call[w].op = "rebuild" /\ pc[w] \in TxSteps
    /\ pc'[w] # pc[w] \/ txRows'[w] # txRows[w] \/ txDel'[w] # txDel[w]
          \/ rbTrades'[w] # rbTrades[w]

C14_RebuildDeterministic ==
    [][(call[SeqCaller].op = "rebuild" /\ Returns(SeqCaller) /\ faults' = faults) =>
          LET a == call[SeqCaller].account
              r == Replay({}, TradesForRebuild(a))
          IN  /\ r.ok
              /\ ret'[SeqCaller].err = "none"
              /\ RowsOf(positions', a) = r.rows]_vars

\* C15: in the steps of an InsertTradeAndUpdatePosition call every closed
\* row stays as it is, and the INSERT of a new position row never fails on
\* a constraint: a trade that opens a position after a closure gets a row
\* whose id no existing row has, whatever its timestamp.
C15_ClosedStaysReopenSucceeds ==
    [][(call[SeqCaller].op = "itup" /\ pc[SeqCaller] \in TxSteps) =>
          /\ \A r \in positions : r.status = "closed" => r \in positions'
          /\ Returns(SeqCaller) => ret'[SeqCaller].err # "unique_violation"]_vars

\* C16: in every state every committed closed position row has quantity 0
\* and closed_at set, and every committed open row has quantity > 0 and
\* closed_at unset, whatever calls run concurrently for the same key.
C16_StatusMatchesQuantity ==
    \A r \in positions :
        /\ r.status = "closed" => (r.quantity = R(0) /\ r.closed_at # Null)
        /\ r.status = "open" => (RLess(R(0), r.quantity) /\ r.closed_at = Null)

\* C17: a store call for one account leaves the position rows of every
\* other account as they are, and a trade's own call has the outcome that
\* UpsertPosition has on the rows of the trade's account alone: the rows it
\* commits, and whether it fails on a constraint, do not depend on the
\* trades of other accounts.
C17_AccountsIsolated ==
    [][(pc[SeqCaller] \in TxSteps /\ call[SeqCaller].op \in {"itup", "rebuild"}) =>
          LET a == call[SeqCaller].account IN
          /\ \A b \in AccountIds \ {a} :
                RowsOf(positions', b) = RowsOf(positions, b)
          /\ (call[SeqCaller].op = "itup" /\ Returns(SeqCaller) /\ faults' = faults
                  /\ ret'[SeqCaller].err # "fk_violation"
                  /\ (ret'[SeqCaller].err = "none" => ret'[SeqCaller].inserted)) =>
                LET alone == UpsertPosition(RowsOf(positions, a),
                                            call[SeqCaller].trade[1])
                IN  /\ alone.ok <=> ret'[SeqCaller].err = "none"
                    /\ RowsOf(positions', a) = alone.rows]_vars

\* C18: the committed trade rows only grow: every step keeps every committed
\* trade row with all its fields (the stamped cost_basis and realized_pnl
\* included), and a row it adds has a trade_id that no committed row had,
\* so that no row is replaced or shadowed either.
C18_TradeLogAppendOnly ==
    [][/\ trades \subseteq trades'
       /\ \A t \in trades' \ trades : t.trade_id \notin TradeIds(trades)]_vars

\* the import has offered a trade whose id is in the log with other stamped
\* values than the committed row, and the INSERT affected no row
C18_Witness ==
    /\ pc[Importer] = "ret" /\ call[Importer].op = "itup"
    /\ ret[Importer].err = "none" /\ ~ret[Importer].inserted
    /\ call[Importer].trade[1] \notin trades
    /\ call[Importer].trade[1].trade_id \in TradeIds(trades)

-----------------------------------------------------------------------------
(* UpsertPosition as a function of the position rows and the trade:        *)
(* trades of one spot key and of one futures key applied one after         *)
(* another, from no rows, each trade once.                                 *)

UpsertEvents ==
    {EventTable[i] : i \in {1, 2, 3, 4, 5, 15, 16} \cup {6, 7, 17, 18, 19, 20, 21}}

\* err := r.UpsertPosition(ctx, tx, trade) on the rows it finds
ApplyUpsert ==
    /\ ncalls < MaxApply
    /\ ncalls' = ncalls + 1
    /\ \E e \in UpsertEvents :
          LET trade == ToDomain(e)[1]
              r == UpsertPosition(positions, trade)
          IN  /\ e.trade_id \notin okTrades
              /\ okTrades' = okTrades \cup {e.trade_id}
              /\ positions' = r.rows
              /\ call' = [call EXCEPT ![SeqCaller] =
                             [NoCall EXCEPT !.op = "upsert", !.trade = Some(trade)]]
              /\ ret' = [ret EXCEPT ![SeqCaller] =
                            [NoRet EXCEPT !.err = IF r.ok THEN "none"
                                                  ELSE "unique_violation"]]
    /\ UNCHANGED <<accounts, trades, pc, txVars, stream, hnd, ordered, faults>>

NextUpsert == ApplyUpsert

SpecUpsert == Init /\ [][NextUpsert]_vars

\* C19: a spot buy of q at p with fee f for a key with no open position adds
\* one row: long, open, quantity q, avg_entry_price p, cost_basis q*p + f,
\* realized_pnl 0, opened_at the trade's timestamp; a spot buy for a key
\* with an open position sets that row's quantity to qp + q, its cost_basis
\* to cb + q*p + f and its avg_entry_price to cost_basis / quantity and
\* leaves everything else as it was.
C19_SpotBuy ==
    [][ncalls' = ncalls + 1 =>
          LET t == call'[SeqCaller].trade[1]
              open == OpenRows(positions, KeyOf(t))
              cost == RAdd(RMul(t.quantity, t.price), t.fee)
          IN  (t.market_type = "spot" /\ t.side = "buy") =>
                 IF open = {}
                 THEN \E r \in positions' :
                         /\ positions' \ {r} = positions /\ r \notin positions
                         /\ KeyOf(r) = KeyOf(t)
                         /\ r.side = "long" /\ r.status = "open"
                         /\ r.quantity = t.quantity
                         /\ r.avg_entry_price = t.price
                         /\ r.cost_basis = cost
                         /\ r.realized_pnl = R(0)
                         /\ r.opened_at = t.timestamp /\ r.closed_at = Null
                 ELSE \E r \in open :
                         LET qty == RAdd(r.quantity, t.quantity)
                             cb == RAdd(r.cost_basis, cost)
                         IN  positions' = (positions \ {r}) \cup
                                {[r EXCEPT !.quantity = qty, !.cost_basis = cb,
                                           !.avg_entry_price = RDiv(cb, qty)]}]_vars

C21_SpotClosingSell ==
    [][ncalls' = ncalls + 1 =>
          LET t == call'[SeqCaller].trade[1]
              open == OpenRows(positions, KeyOf(t))
          IN  (t.market_type = "spot" /\ t.side = "sell") =>
                 \A r \in open :
                    ~RLess(t.quantity, r.quantity) =>
                       LET pnl == RSub(RMul(RSub(t.price, r.avg_entry_price),
                                            r.quantity), t.fee)
                       IN  /\ positions' = (positions \ {r}) \cup
                                 {[r EXCEPT !.status = "closed",
                                            !.quantity = R(0),
                                            !.closed_at = Some(t.timestamp),
                                            !.realized_pnl = RAdd(r.realized_pnl, pnl)]}
                           /\ OpenRows(positions', KeyOf(t)) = {}]_vars

\* C22: an InsertTradeAndUpdatePosition call with a spot sell for a key with
\* no open position changes no position row in any of its steps; when the
\* trade's account exists, its trade_id is new and no storage failure
\* strikes, the call returns inserted = true without error and the trade
\* is in the log.
C22_SellWithoutPosition ==
    [][(call[SeqCaller].op = "itup" /\ pc[SeqCaller] \in TxSteps) =>
          LET t == call[SeqCaller].trade[1] IN
          (/\ t.market_type = "spot" /\ t.side = "sell"
           /\ OpenRows(positions, KeyOf(t)) = {}) =>
              /\ positions' = positions
              /\ (/\ Returns(SeqCaller) /\ faults' = faults
                  /\ t.account_id \in {a.id : a \in accounts}
                  /\ ~TradeIdConflict(t, trades)) =>
                     /\ ret'[SeqCaller].err = "none"
                     /\ ret'[SeqCaller].inserted
                     /\ t \in trades']_vars

\* a spot sell was committed for a key whose only position row is closed
C22_Witness ==
    /\ pc[SeqCaller] = "ret" /\ call[SeqCaller].op = "itup"
    /\ ret[SeqCaller].err = "none" /\ ret[SeqCaller].inserted
    /\ call[SeqCaller].trade[1].side = "sell"
    /\ call[SeqCaller].trade[1].market_type = "spot"
    /\ call[SeqCaller].trade[1] \in trades
    /\ \E r \in positions :
          /\ KeyOf(r) = KeyOf(call[SeqCaller].trade[1])
          /\ r.status = "closed"
          /\ TimeLess(r.closed_at[1], call[SeqCaller].trade[1].timestamp)
    /\ OpenRows(positions, KeyOf(call[SeqCaller].trade[1])) = {}

\* the row of rows with the id of r
SameId(rows, r) == {x \in rows : x.id = r.id}

\* C23: the row a futures trade creates is long for a buy and short for a
\* sell; a futures trade that finds an open row leaves the row's side as it
\* is; when the trade is a sell on a long or a buy on a short it lowers the
\* row's quantity, and otherwise the row stays open with a strictly larger
\* quantity.
C23_FuturesSide ==
    [][ncalls' = ncalls + 1 =>
          LET t == call'[SeqCaller].trade[1]
              open == OpenRows(positions, KeyOf(t))
          IN  t.market_type = "futures" =>
                 /\ \A r \in positions' :
                       SameId(positions, r) = {} =>
                          /\ open = {}
                          /\ r.side = (IF t.side = "buy" THEN "long" ELSE "short")
                 /\ \A r \in open : \E x \in SameId(positions', r) :
                       /\ x.side = r.side
                       /\ IF (r.side = "long" /\ t.side = "sell")
                             \/ (r.side = "short" /\ t.side = "buy")
                          THEN RLess(x.quantity, r.quantity)
                          ELSE /\ x.status = "open"
                               /\ RLess(r.quantity, x.quantity)]_vars

\* a sell has just increased a short position
C23_Witness ==
    /\ call[SeqCaller].op = "upsert"
    /\ call[SeqCaller].trade[1].market_type = "futures"
    /\ call[SeqCaller].trade[1].side = "sell"
    /\ \E r \in OpenRows(positions, KeyOf(call[SeqCaller].trade[1])) :
          /\ r.side = "short"
          /\ RLess(call[SeqCaller].trade[1].quantity, r.quantity)
          /\ TimeLess(r.opened_at, call[SeqCaller].trade[1].timestamp)

\* the smaller of two quantities
RMin(a, b) == IF RLess(a, b) THEN a ELSE b

\* C24: a closing futures trade of q at p on an open row with quantity qp
\* and average entry ap adds to the row's realized_pnl (p - ap)*min(q, qp)
\* for a long, (ap - p)*min(q, qp) for a short, minus the fee and minus the
\* funding fee when the trade has one; when q < qp the row's quantity
\* becomes qp - q, its cost_basis ap*(qp - q), and its avg_entry_price
\* stays.
C24_FuturesClosingPnl ==
    [][ncalls' = ncalls + 1 =>
          LET t == call'[SeqCaller].trade[1]
              open == OpenRows(positions, KeyOf(t))
          IN  t.market_type = "futures" =>
                 \A r \in open :
                    ((r.side = "long" /\ t.side = "sell")
                        \/ (r.side = "short" /\ t.side = "buy")) =>
                       LET m == RMin(t.quantity, r.quantity)
                           gross == IF r.side = "long"
                                    THEN RMul(RSub(t.price, r.avg_entry_price), m)
                                    ELSE RMul(RSub(r.avg_entry_price, t.price), m)
                           net == RSub(RSub(gross, t.fee),
                                       IF t.funding_fee = Null THEN R(0)
                                       ELSE t.funding_fee[1])
                       IN  \E x \in SameId(positions', r) :
                              /\ x.realized_pnl = RAdd(r.realized_pnl, net)
                              /\ RLess(t.quantity, r.quantity) =>
                                    /\ x.quantity = RSub(r.quantity, t.quantity)
                                    /\ x.cost_basis =
                                          RMul(r.avg_entry_price,
                                               RSub(r.quantity, t.quantity))
                                    /\ x.avg_entry_price = r.avg_entry_price]_vars

\* C25: a closing futures trade whose quantity is at least the open row's
\* quantity closes that row (status closed, quantity 0, closed_at the
\* trade's timestamp), creates no row, and leaves the key without an open
\* row of either side.
C25_OverCloseNeverFlips ==
    [][ncalls' = ncalls + 1 =>
          LET t == call'[SeqCaller].trade[1]
              open == OpenRows(positions, KeyOf(t))
          IN  t.market_type = "futures" =>
                 \A r \in open :
                    (/\ (r.side = "long" /\ t.side = "sell")
                           \/ (r.side = "short" /\ t.side = "buy")
                     /\ ~RLess(t.quantity, r.quantity)) =>
                       /\ \E x \in SameId(positions', r) :
                             /\ x.status = "closed" /\ x.quantity = R(0)
                             /\ x.closed_at = Some(t.timestamp)
                             /\ x.side = r.side
                       /\ Ids(positions') = Ids(positions)
                       /\ OpenRows(positions', KeyOf(t)) = {}]_vars

\* a futures trade larger than the open position has just closed it
C25_Witness ==
    /\ call[SeqCaller].op = "upsert"
    /\ call[SeqCaller].trade[1].market_type = "futures"
    /\ OpenRows(positions, KeyOf(call[SeqCaller].trade[1])) = {}
    /\ \E x \in positions :
          /\ KeyOf(x) = KeyOf(call[SeqCaller].trade[1])
          /\ x.status = "closed"
          /\ x.closed_at = Some(call[SeqCaller].trade[1].timestamp)
          /\ x.side = (IF call[SeqCaller].trade[1].side = "buy"
                       THEN "short" ELSE "long")
          /\ RLess(x.cost_basis,
                   RMul(x.avg_entry_price, call[SeqCaller].trade[1].quantity))

\* C26: a futures trade of q at p in the direction of the open row sets the
\* row's quantity to qp + q, its cost_basis to cb + q*p (no fee) and its
\* avg_entry_price to cost_basis / quantity; leverage, margin and
\* liquidation_price take the trade's value where the trade has one and
\* keep the row's value where it has none; realized_pnl, the rest of the
\* row and the other rows stay.
C26_FuturesIncrease ==
    [][ncalls' = ncalls + 1 =>
          LET t == call'[SeqCaller].trade[1]
              open == OpenRows(positions, KeyOf(t))
          IN  t.market_type = "futures" =>
                 \A r \in open :
                    ((r.side = "long" /\ t.side = "buy")
                        \/ (r.side = "short" /\ t.side = "sell")) =>
                       LET qty == RAdd(r.quantity, t.quantity)
                           cb == RAdd(r.cost_basis, RMul(t.quantity, t.price))
                       IN  positions' = (positions \ {r}) \cup
                              {[r EXCEPT
                                  !.quantity = qty, !.cost_basis = cb,
                                  !.avg_entry_price = RDiv(cb, qty),
                                  !.leverage = IF t.leverage = Null
                                               THEN r.leverage ELSE t.leverage,
                                  !.margin = IF t.margin = Null
                                             THEN r.margin ELSE t.margin,
                                  !.liquidation_price =
                                      IF t.liquidation_price = Null
                                      THEN r.liquidation_price
                                      ELSE t.liquidation_price]}]_vars

\* a futures trade without leverage has just increased a position that
\* has one
C26_Witness ==
    /\ call[SeqCaller].op = "upsert"
    /\ call[SeqCaller].trade[1].market_type = "futures"
    /\ call[SeqCaller].trade[1].leverage = Null
    /\ \E r \in OpenRows(positions, KeyOf(call[SeqCaller].trade[1])) :
          /\ r.side = (IF call[SeqCaller].trade[1].side = "buy"
                       THEN "long" ELSE "short")
          /\ RLess(call[SeqCaller].trade[1].quantity, r.quantity)
          /\ r.leverage # Null

\* |a - b| as a rational
RDist(a, b) == IF RLess(a, b) THEN RSub(b, a) ELSE RSub(a, b)

\* C27: every open spot position row has side long, quantity > 0,
\* avg_entry_price > 0 and a cost_basis that differs from avg_entry_price *
\* quantity by no more than rounding can explain (one part in a million of
\* the cost basis).
C27_SpotCostBasisConsistent ==
    \A r \in positions :
        (r.market_type = "spot" /\ r.status = "open") =>
            /\ r.side = "long"
            /\ RLess(R(0), r.quantity)
            /\ RLess(R(0), r.avg_entry_price)
            /\ ~RLess(r.cost_basis,
                      RMul(R(1000000),
                           RDist(r.cost_basis,
                                 RMul(r.avg_entry_price, r.quantity))))

\* trade t closes (part of) the open row r: a spot sell, a futures sell on a
\* long, a futures buy on a short
IsClosing(r, t) ==
    IF t.market_type = "spot" THEN t.side = "sell"
    ELSE \/ (r.side = "long" /\ t.side = "sell")
         \/ (r.side = "short" /\ t.side = "buy")

\* realizedPnL of the closing trade t on the row r, from the row's average
\* entry and side and the trade alone
ClosingIncrement(r, t) ==
    LET gross == IF r.side = "long"
                 THEN RMul(RSub(t.price, r.avg_entry_price), t.quantity)
                 ELSE RMul(RSub(r.avg_entry_price, t.price), t.quantity)
        net == RSub(gross, t.fee)
    IN  IF t.market_type = "futures" /\ t.funding_fee # Null
        THEN RSub(net, t.funding_fee[1]) ELSE net

\* C28: a row starts with realized_pnl 0; a closing trade adds its own
\* increment to the realized_pnl the row has; an opening trade leaves it;
\* no trade changes a closed row: so a closed row's realized_pnl is the sum
\* of the increments of the closing trades applied to it.
C28_RealizedPnlAccumulates ==
    [][ncalls' = ncalls + 1 =>
          LET t == call'[SeqCaller].trade[1] IN
          /\ \A x \in positions' :
                SameId(positions, x) = {} => x.realized_pnl = R(0)
          /\ \A r \in positions :
                IF r.status = "open" /\ KeyOf(r) = KeyOf(t)
                THEN \E x \in SameId(positions', r) :
                        x.realized_pnl =
                           IF IsClosing(r, t)
                           THEN RAdd(r.realized_pnl, ClosingIncrement(r, t))
                           ELSE r.realized_pnl
                ELSE r \in positions']_vars

\* a position has just been closed whose realized_pnl is more than the
\* increment of the trade that closed it
C28_Witness ==
    /\ call[SeqCaller].op = "upsert"
    /\ \E x \in positions :
          /\ KeyOf(x) = KeyOf(call[SeqCaller].trade[1])
          /\ x.status = "closed"
          /\ x.closed_at = Some(call[SeqCaller].trade[1].timestamp)
          /\ IsClosing(x, call[SeqCaller].trade[1])
          /\ x.realized_pnl # ClosingIncrement(x, call[SeqCaller].trade[1])
    /\ OpenRows(positions, KeyOf(call[SeqCaller].trade[1])) = {}

\* quantity bought minus quantity sold by the first k trades of seq
RECURSIVE NetQuantity(_, _)
NetQuantity(seq, k) ==
    IF k = 0 THEN R(0)
    ELSE IF seq[k].side = "buy"
         THEN RAdd(NetQuantity(seq, k - 1), seq[k].quantity)
         ELSE RSub(NetQuantity(seq, k - 1), seq[k].quantity)

\* every sell of seq is preceded by enough buys to cover it
Covered(seq) == \A k \in DOMAIN seq : ~RLess(NetQuantity(seq, k), R(0))

\* the trades of seq made chronological in the order of seq: the k-th trade
\* gets the k-th second
Retime(seq) == {[seq[k] EXCEPT !.timestamp = <<k, 0>>] : k \in DOMAIN seq}

\* the columns of the rows that do not name a time
Columns(rows) ==
    {[quantity |-> r.quantity, avg_entry_price |-> r.avg_entry_price,
      cost_basis |-> r.cost_basis, realized_pnl |-> r.realized_pnl,
      status |-> r.status] : r \in rows}

\* the spot trades applied so far
AppliedSpotTrades ==
    {ToDomain(e)[1] : e \in {x \in UpsertEvents :
                                x.trade_id \in okTrades /\ x.market_type = "spot"}}

\* C29: for the spot trades of one key, any two chronological orders in
\* which every sell is covered by the buys before it give, by the replay of
\* RebuildPositions in (timestamp, trade_id) order, rows with the same
\* quantity, avg_entry_price, cost_basis, realized_pnl and status.
C29_CoveredOrdersAgree ==
    \A o1, o2 \in {o \in Orders(AppliedSpotTrades) : Covered(o)} :
        Columns(Replay({}, SortTrades(Retime(o1))).rows)
            = Columns(Replay({}, SortTrades(Retime(o2))).rows)

\* C30: every committed trade row has quantity > 0, price > 0, fee >= 0,
\* side in {buy, sell} and market_type in {spot, futures}: an event that
\* violates one of these is rejected before any write.
C30_CommittedTradesWellFormed ==
    \A t \in trades :
        /\ ~RLeq0(t.quantity)
        /\ ~RLeq0(t.price)
        /\ ~RLess(t.fee, R(0))
        /\ t.side \in {"buy", "sell"}
        /\ t.market_type \in {"spot", "futures"}

-----------------------------------------------------------------------------
(* TradeEvent.Validate as a function of the decoded event: every field     *)
(* ranges over values on both sides of each test of Validate.              *)

ValidateInputs ==
    [trade_id : {0, 1}, account_id : {"", "a"}, symbol : {"", "X"},
     side : {"buy", "sell", "hold"}, quantity : {R(-1), R(0), R(1)},
     price : {R(0), R(2)}, fee : {R(-1), R(0)}, fee_currency : {"", "USD"},
     market_type : {"spot", "futures", "options"},
     timestamp : {"", T0, "yesterday", "2025-01-15T12:00:00+02:00"},
     leverage : {Null, Some(5)}, margin : {Null},
     liquidation_price : {Null, Some(R(1))}, funding_fee : {Null}]

\* the one call of event.Validate() of a run
ValidateEvent ==
    /\ call[SeqCaller].op = "none"
    /\ \E e \in ValidateInputs :
          /\ call' = [call EXCEPT ![SeqCaller] =
                         [NoCall EXCEPT !.op = "validate", !.trade = Some(e)]]
          /\ ret' = [ret EXCEPT ![SeqCaller] =
                        [NoRet EXCEPT !.err = IF Validate(e) THEN "none" ELSE "invalid"]]
    /\ UNCHANGED <<storeVars, pc, txVars, stream, hnd, okTrades, ordered, faults, ncalls>>

NextValidate == ValidateEvent
SpecValidate == Init /\ [][NextValidate]_vars

\* C31: Validate returns no error if and only if trade_id, account_id,
\* symbol, fee_currency and timestamp are non-empty, side is buy or sell,
\* market_type is spot or futures, quantity > 0, price > 0 and the timestamp
\* parses as RFC3339; the event with its optional futures fields removed
\* gets the same answer.
C31_ValidateIff ==
    call[SeqCaller].op = "validate" =>
        LET e == call[SeqCaller].trade[1]
            bare == [e EXCEPT !.leverage = Null, !.margin = Null,
                              !.liquidation_price = Null, !.funding_fee = Null]
            accepted == ret[SeqCaller].err = "none"
        IN  /\ accepted <=>
                  /\ e.trade_id # 0 /\ e.account_id # "" /\ e.symbol # ""
                  /\ e.fee_currency # "" /\ e.timestamp # ""
                  /\ e.side \in {"buy", "sell"}
                  /\ e.market_type \in {"spot", "futures"}
                  /\ RLess(R(0), e.quantity) /\ RLess(R(0), e.price)
                  /\ ParseTime(e.timestamp) # Null
            /\ accepted <=> Validate(bare)

\* an accepted event that carries optional futures fields and a fee below zero
C31_Witness ==
    /\ call[SeqCaller].op = "validate"
    /\ ret[SeqCaller].err = "none"
    /\ call[SeqCaller].trade[1].leverage # Null
    /\ call[SeqCaller].trade[1].timestamp = "2025-01-15T12:00:00+02:00"

-----------------------------------------------------------------------------
(* The consumer and the import handler of one process, running side by     *)
(* side: the upstream publishes the buy 1 and the sell 2 while requests     *)
(* import the buy 3 of the same account and symbol, or a buy and a later    *)
(* sell whose timestamps are written with and without a numeric offset.     *)

\* messages published, and requests made, in one run of both handlers
MaxBoth == 1

NextBoth ==
    \/ Len(stream) < MaxBoth /\ PublishOf({1, 2})
    \/ HandleMessage
    \/ HandleReturn
    \/ ncalls < MaxBoth /\ ImportRequestOf({<<EventTable[3]>>,
                                              <<EventTable[23], EventTable[5]>>})
    \/ ImportLoop
    \/ ImportReturn
    \/ ImportRebuild
    \/ \E w \in {ConsumerW, Importer} :
          \/ InsertTrade(w)
          \/ SelectPosition(w)
          \/ WritePosition(w)
          \/ Commit(w)
          \/ AccountSelect(w)
          \/ AccountInsert(w)
          \/ GetAvgEntryPrice(w)
          \/ Fault(w)
    \/ RebuildDelete(Importer)
    \/ RebuildDeleteResume(Importer)
    \/ RebuildScan(Importer)

SpecBoth == Init /\ [][NextBoth]_vars

\* C32: when InsertTradeAndUpdatePosition commits a trade for the consumer
\* or the import handler, a sell carries cost_basis = avg * q and
\* realized_pnl = (p - avg) * q - fee, avg being the average entry price of
\* the open position the trade was applied to (0 if none); a buy carries
\* cost_basis = q * p + fee and realized_pnl = 0; and the statement run on
\* the position is the one the unstamped trade would have run.
C32_StampedFromAppliedPosition ==
    [][\A w \in {ConsumerW, Importer} :
          (pc[w] = "tx_commit" /\ pc'[w] = "ret" /\ call[w].op = "itup") =>
             \A t \in txTrades[w] :
                LET avg == IF txRead[w] = Null THEN R(0)
                           ELSE txRead[w][1].avg_entry_price
                IN  /\ t.side = "sell" =>
                          /\ t.cost_basis = RMul(avg, t.quantity)
                          /\ t.realized_pnl =
                                RSub(RMul(RSub(t.price, avg), t.quantity), t.fee)
                    /\ t.side = "buy" =>
                          /\ t.cost_basis = RAdd(RMul(t.quantity, t.price), t.fee)
                          /\ t.realized_pnl = R(0)
                    /\ Statement(txRead[w], t)
                          = Statement(txRead[w], [t EXCEPT !.cost_basis = R(0),
                                                           !.realized_pnl = R(0)])]_vars

-----------------------------------------------------------------------------
(* Repository.ListTrades and its cursor.  A cursor is Null (the empty      *)
(* string) or Some([b64, raw]): b64 tells whether the string is valid      *)
(* base64, raw is the decoded text split at its first "|".                 *)

DefaultLimit == 50
MaxLimit == 200

\* trade rows in the log when listing starts
MaxListed == 4

\* ts.Format(time.RFC3339Nano) of an instant read from a TIMESTAMPTZ column
FormatTime(t) ==
    CASE t = <<0, 0>> -> "2025-01-15T10:00:00Z"
      [] t = <<0, 5>> -> "2025-01-15T10:00:00.5Z"
      [] t = <<1, 0>> -> "2025-01-15T10:00:01Z"
      [] t = <<1, 5>> -> "2025-01-15T10:00:01.5Z"
      [] t = <<2, 0>> -> "2025-01-15T10:00:02Z"

encodeCursor(ts, id) == Some([b64 |-> TRUE, raw |-> <<FormatTime(ts), id>>])

\* decodeCursor: Null on an error, else Some(<<timestamp, trade_id>>)
decodeCursor(cursor) ==
    IF ~cursor.b64 \/ Len(cursor.raw) # 2 \/ ParseTime(cursor.raw[1]) = Null
    THEN Null
    ELSE Some(<<ParseTime(cursor.raw[1])[1], cursor.raw[2]>>)

\* variant: (timestamp, trade_id) <= ($ts, $id)
KeysetNotAfter(t, ts, id) ==
    \/ TimeLess(t.timestamp, ts)
    \/ (t.timestamp = ts /\ t.trade_id <= id)

\* (timestamp, trade_id) < ($ts, $id)
KeysetBefore(t, ts, id) ==
    \/ TimeLess(t.timestamp, ts)
    \/ (t.timestamp = ts /\ t.trade_id < id)

\* the conditions of the WHERE clause other than the cursor's
Matches(t, accountID, filter) ==
    /\ t.account_id = accountID
    /\ filter.symbol # "" => t.symbol = filter.symbol
    /\ filter.side # "" => t.side = filter.side
    /\ filter.market_type # "" => t.market_type = filter.market_type

ListTrades(rows, accountID, filter) ==
    LET limit == IF filter.limit <= 0 THEN DefaultLimit
                 ELSE IF filter.limit > MaxLimit THEN MaxLimit ELSE filter.limit
        key == IF filter.cursor = Null THEN Null ELSE decodeCursor(filter.cursor[1])
        hits == {t \in rows :
                    /\ Matches(t, accountID, filter)
                    /\ key # Null => KeysetBefore(t, key[1][1], key[1][2])}
        asc == SortTrades(hits)
        \* ORDER BY timestamp DESC, trade_id DESC
        sorted == [i \in 1..Len(asc) |-> asc[Len(asc) + 1 - i]]
        fetched == SubSeq(sorted, 1, IF Len(sorted) > limit + 1 THEN limit + 1
                                     ELSE Len(sorted))
    IN  IF filter.cursor # Null /\ key = Null
        THEN [err |-> "invalid cursor", trades |-> <<>>, next_cursor |-> Null]
        ELSE IF Len(fetched) > limit
        THEN [err |-> "none", trades |-> SubSeq(fetched, 1, limit),
              next_cursor |-> encodeCursor(fetched[limit].timestamp,
                                           fetched[limit].trade_id)]
        ELSE [err |-> "none", trades |-> fetched, next_cursor |-> Null]

\* a trade row committed before the listing starts
ListSeed ==
    /\ hnd[SeqCaller] = Null
    /\ Cardinality(trades) < MaxListed
    /\ \E e \in {EventTable[i] : i \in {1, 2, 3, 4, 5, 8}} :
          /\ e.trade_id \notin TradeIds(trades)
          /\ trades' = trades \cup {ToDomain(e)[1]}
    /\ UNCHANGED <<accounts, positions, pc, call, txVars, ret, stream, hnd,
                   okTrades, ordered, faults, ncalls>>

\* the first request of a client, without a cursor or with a malformed one
\* (not base64, no "|", a timestamp that does not parse).  The session keeps
\* the request's filter, the rows returned so far, the size of each page and
\* the last next_cursor.
ListFirst ==
    /\ hnd[SeqCaller] = Null
    /\ \E filter \in
            [symbol : {"", "X"}, side : {"", "buy"}, market_type : {""},
             limit : {-1, 1, 2, 201},
             cursor : {Null, Some([b64 |-> FALSE, raw |-> <<>>]),
                       Some([b64 |-> TRUE, raw |-> <<"garbage">>]),
                       Some([b64 |-> TRUE, raw |-> <<"yesterday", 1>>])}] :
          LET res == ListTrades(trades, "a", filter) IN
          hnd' = [hnd EXCEPT ![SeqCaller] =
                     Some([filter |-> filter, rows |-> res.trades,
                           sizes |-> <<Len(res.trades)>>,
                           next |-> res.next_cursor, err |-> res.err])]
    /\ UNCHANGED <<storeVars, pc, call, txVars, ret, stream, okTrades, ordered,
                   faults, ncalls>>

\* the client follows next_cursor
ListFollow ==
    /\ hnd[SeqCaller] # Null
    /\ hnd[SeqCaller][1].next # Null
    /\ LET st == hnd[SeqCaller][1]
           res == ListTrades(trades, "a", [st.filter EXCEPT !.cursor = st.next])
       IN  hnd' = [hnd EXCEPT ![SeqCaller] =
                      Some([st EXCEPT !.rows = st.rows \o res.trades,
                                      !.sizes = Append(st.sizes, Len(res.trades)),
                                      !.next = res.next_cursor, !.err = res.err])]
    /\ UNCHANGED <<storeVars, pc, call, txVars, ret, stream, okTrades, ordered,
                   faults, ncalls>>

NextList == ListSeed \/ ListFirst \/ ListFollow
SpecList == Init /\ [][NextList]_vars

C34_GetOrCreateIdempotent ==
    [][\A w \in Callers :
          (call[w].op = "account" /\ pc[w] \in {"acct_select", "acct_insert"}) =>
             LET id == call[w].account IN
             /\ \A a \in accounts : a \in accounts'
             /\ Cardinality({a \in accounts' : a.id = id}) <= 1
             /\ pc'[w] = "ret" =>
                   /\ ret'[w].err # "unique_violation"
                   /\ ret'[w].err = "none" =>
                         [id |-> id, name |-> id, type |-> InferAccountType(id)]
                            \in accounts']_vars

-----------------------------------------------------------------------------
(* store.RunMigrations.  The embedded files are named NNN_name.up.sql and  *)
(* NNN_name.down.sql; file k stands for the k-th such name, so the order   *)
(* of sort.Strings on the names is the order of k.  The database keeps     *)
(* effects (the scripts whose changes are committed) and versions (the     *)
(* rows of ledger_schema_migrations); tx holds the uncommitted changes of  *)
(* the open transaction; applied is the history of committed scripts;      *)
(* broken is the script whose SQL fails whenever it runs (0: none).        *)

\* up scripts embedded in the binary
MaxMigrations == 4
\* runs of RunMigrations (starts of the service)
MaxRuns == 3

NoMig == [effects |-> {}, versions |-> {}, queue |-> <<>>, step |-> "idle",
          version |-> 0, txEffects |-> {}, txVersions |-> {}, err |-> "none",
          applied |-> <<>>, broken |-> 0]

Mig == IF hnd[SeqCaller] = Null THEN NoMig ELSE hnd[SeqCaller][1]

\* the entries of migrationsFS.ReadDir("migrations")
MigrationFiles == (1..MaxMigrations) \X {"up", "down"}

\* variant: the script runs on the pool, outside the transaction
ExecOnPool(m) == [m EXCEPT !.effects = @ \cup {m.version}, !.step = "record"]

\* tx.Exec(ctx, string(content)) without error
ExecScript(m) == [m EXCEPT !.txEffects = {m.version}, !.step = "record"]

\* an error return after tx.Rollback (or a failed Commit): the run is over
MigFail(m) == [m EXCEPT !.txEffects = {}, !.txVersions = {}, !.step = "idle",
                        !.queue = <<>>, !.err = "error"]

\* RunMigrations up to the loop: the up files, sorted
MigStart ==
    /\ Mig.step = "idle"
    /\ ncalls < MaxRuns
    /\ ncalls' = ncalls + 1
    /\ LET up == {f[1] : f \in {g \in MigrationFiles : g[2] = "up"}}
           sorted == [k \in 1..Cardinality(up) |->
                        CHOOSE v \in up : Cardinality({u \in up : u < v}) = k - 1]
       IN  \E b \in IF ncalls = 0 THEN 0..MaxMigrations ELSE {Mig.broken} :
              hnd' = [hnd EXCEPT ![SeqCaller] =
                         Some([Mig EXCEPT !.queue = sorted, !.step = "check",
                                          !.err = "none", !.broken = b])]
    /\ UNCHANGED <<storeVars, pc, call, txVars, ret, stream, okTrades, ordered, faults>>

\* the head of the loop: SELECT COUNT(*) ... WHERE version = $1, then
\* continue, or ReadFile and pool.Begin
MigCheck ==
    /\ Mig.step = "check"
    /\ hnd' = [hnd EXCEPT ![SeqCaller] = Some(
          IF Mig.queue = <<>> THEN [Mig EXCEPT !.step = "idle"]
          ELSE IF Head(Mig.queue) \in Mig.versions
          THEN [Mig EXCEPT !.queue = Tail(Mig.queue)]
          ELSE [Mig EXCEPT !.queue = Tail(Mig.queue), !.version = Head(Mig.queue),
                           !.step = "exec"])]
    /\ UNCHANGED <<storeVars, pc, call, txVars, ret, stream, okTrades, ordered,
                   faults, ncalls>>

\* the script's tx.Exec
MigExec ==
    /\ Mig.step = "exec"
    /\ hnd' = [hnd EXCEPT ![SeqCaller] =
                  Some(IF Mig.version = Mig.broken THEN MigFail(Mig) ELSE ExecScript(Mig))]
    /\ UNCHANGED <<storeVars, pc, call, txVars, ret, stream, okTrades, ordered,
                   faults, ncalls>>

\* INSERT INTO ledger_schema_migrations (version) VALUES ($1)
MigRecord ==
    /\ Mig.step = "record"
    /\ hnd' = [hnd EXCEPT ![SeqCaller] = Some(
          IF Mig.version \in Mig.versions THEN MigFail(Mig)
          ELSE [Mig EXCEPT !.txVersions = {Mig.version}, !.step = "commit"])]
    /\ UNCHANGED <<storeVars, pc, call, txVars, ret, stream, okTrades, ordered,
                   faults, ncalls>>

\* tx.Commit
MigCommit ==
    /\ Mig.step = "commit"
    /\ hnd' = [hnd EXCEPT ![SeqCaller] = Some(
          [Mig EXCEPT !.effects = @ \cup Mig.txEffects,
                      !.versions = @ \cup Mig.txVersions,
                      !.txEffects = {}, !.txVersions = {}, !.step = "check",
                      !.applied = Append(@, Mig.version)])]
    /\ UNCHANGED <<storeVars, pc, call, txVars, ret, stream, okTrades, ordered,
                   faults, ncalls>>

\* a statement of the run fails: a script with an error, a lost connection
MigFault ==
    /\ Mig.step \in {"check", "exec", "record", "commit"}
    /\ faults < MaxFaults
    /\ faults' = faults + 1
    /\ hnd' = [hnd EXCEPT ![SeqCaller] = Some(MigFail(Mig))]
    /\ UNCHANGED <<storeVars, pc, call, txVars, ret, stream, okTrades, ordered, ncalls>>

NextMigrate == MigStart \/ MigCheck \/ MigExec \/ MigRecord \/ MigCommit \/ MigFault
SpecMigrate == Init /\ [][NextMigrate]_vars

\* C35: over all runs the committed scripts are in strictly ascending order
\* of version (so none is applied twice); between transactions the recorded
\* versions are exactly the scripts whose effects are committed, and they
\* are the scripts committed so far; a run that returned an error is over,
\* with nothing of the failed script left, and inside a transaction only
\* the current script is uncommitted.
C35_MigrationsOnceInOrder ==
    /\ \A i, j \in DOMAIN Mig.applied : i < j => Mig.applied[i] < Mig.applied[j]
    /\ Mig.versions = {Mig.applied[i] : i \in DOMAIN Mig.applied}
    /\ Mig.effects = Mig.versions
    /\ Mig.err # "none" =>
          Mig.step = "idle" /\ Mig.txEffects = {} /\ Mig.txVersions = {}
    /\ Mig.step \in {"idle", "check", "exec"} =>
          Mig.txEffects = {} /\ Mig.txVersions = {}
    /\ Mig.txVersions \subseteq Mig.txEffects
    /\ Mig.txEffects \subseteq {Mig.version}

\* a run lost its connection after its first script, the next run applied
\* the second and stopped at the third, whose SQL fails
C35_Witness ==
    /\ faults = 1 /\ ncalls = 2
    /\ Mig.step = "idle" /\ Mig.err = "error" /\ Mig.broken = 3
    /\ Mig.applied = <<1, 2>>

-----------------------------------------------------------------------------
(* Shutdown of the service (main).  main is the main goroutine's position; *)
(* loop the goroutine of Consumer.Start; handler the message callback      *)
(* (idle, handling, store: inside a store call, reply: before its          *)
(* Ack/Nak/Term); http a request handler of the HTTP server, likewise.     *)

NoProc == [main |-> "wait", cancelled |-> FALSE, loop |-> "consuming",
           handler |-> "idle", http |-> "idle", server |-> "open",
           nats |-> "open", pool |-> "open"]

Proc == IF hnd[SeqCaller] = Null THEN NoProc ELSE hnd[SeqCaller][1]

\* one step of the process, the rest of the model unchanged
ProcStep(new) ==
    /\ hnd' = [hnd EXCEPT ![SeqCaller] = Some(new)]
    /\ UNCHANGED <<storeVars, pc, call, txVars, ret, stream, okTrades, ordered,
                   faults, ncalls>>

\* a handler's next step: a store call on a closed pool returns an error
Advance(at) ==
    CASE at = "handling" -> IF Proc.pool = "open" THEN "store" ELSE "reply"
      [] at = "store" -> "reply"
      [] at = "reply" -> "idle"

\* <-sigChan; cancel()
Signal ==
    /\ Proc.main = "wait"
    /\ ProcStep([Proc EXCEPT !.main = "cancelled", !.cancelled = TRUE])

\* <-ctx.Done(); cc.Stop() in the goroutine of Consumer.Start: no further
\* delivery; the callback in flight goes on
ConsumerStop ==
    /\ Proc.cancelled /\ Proc.loop = "consuming"
    /\ ProcStep([Proc EXCEPT !.loop = "stopped"])

\* the consume context delivers a message to the callback
Deliver ==
    /\ Proc.loop = "consuming" /\ Proc.nats = "open" /\ Proc.handler = "idle"
    /\ ProcStep([Proc EXCEPT !.handler = "handling"])

HandlerStep ==
    /\ Proc.handler # "idle"
    /\ ProcStep([Proc EXCEPT !.handler = Advance(Proc.handler)])

\* the server accepts a request
HttpRequest ==
    /\ Proc.server = "open" /\ Proc.http = "idle"
    /\ ProcStep([Proc EXCEPT !.http = "handling"])

HttpStep ==
    /\ Proc.http # "idle"
    /\ ProcStep([Proc EXCEPT !.http = Advance(Proc.http)])

\* httpServer.Shutdown(shutdownCtx): returns when the active request is
\* done, or when the 10 s of shutdownCtx are over
HttpShutdown ==
    /\ Proc.main = "cancelled"
    /\ ProcStep([Proc EXCEPT !.main = "http_down", !.server = "closed"])

\* main returns: the deferred nc.Close() runs first
NatsClose ==
    /\ Proc.main = "http_down"
    /\ ProcStep([Proc EXCEPT !.main = "nats_down", !.nats = "closed"])

\* then the deferred repo.Close(), which waits for the connections that
\* store calls hold and closes the pool
PoolClose ==
    /\ Proc.main = "nats_down"
    /\ Proc.handler # "store" /\ Proc.http # "store"
    /\ ProcStep([Proc EXCEPT !.main = "done", !.pool = "closed"])

NextShutdown ==
    \/ Signal \/ ConsumerStop \/ Deliver \/ HandlerStep
    \/ HttpRequest \/ HttpStep \/ HttpShutdown \/ NatsClose \/ PoolClose

SpecShutdown == Init /\ [][NextShutdown]_vars

\* C36: the HTTP server is closed only after the token is cancelled, the
\* consumer stopped and the message callback finished; the pool is closed
\* only after that, and no message callback, request handler or store call
\* is running when it is closed.
C36_ShutdownOrder ==
    /\ Proc.server = "closed" =>
          Proc.cancelled /\ Proc.loop = "stopped" /\ Proc.handler = "idle"
    /\ Proc.pool = "closed" =>
          /\ Proc.server = "closed" /\ Proc.loop = "stopped"
          /\ Proc.handler = "idle" /\ Proc.http = "idle"

\* C37: the events the import handler has still to process are the tail of
\* the batch arranged in ascending event time (the instant the timestamp
\* denotes, whatever its representation), events of equal time in request
\* order.
C37_ImportInEventTimeOrder ==
    (hnd[Importer] # Null /\ hnd[Importer][1].queue # <<>>) =>
        LET b == hnd[Importer][1].batch
            q == hnd[Importer][1].queue
            n == Len(b)
            At(i) == ParseTime(b[i].timestamp)[1]
            stable == CHOOSE f \in {g \in [1..n -> 1..n] :
                                       \A i, j \in 1..n : g[i] = g[j] => i = j} :
                         \A i, j \in 1..n : i < j =>
                            \/ TimeLess(At(f[i]), At(f[j]))
                            \/ (At(f[i]) = At(f[j]) /\ f[i] < f[j])
        IN  q = SubSeq([i \in 1..n |-> b[stable[i]]], n - Len(q) + 1, n)

-----------------------------------------------------------------------------
(* RebuildPositions beside InsertTradeAndUpdatePosition: w1 ingests, one   *)
(* call after the other, while w2 rebuilds.                                *)

NextRebuild ==
    \/ CallGetOrCreateAccount("w1")
    \/ CallITUP("w1")
    \/ CallRebuild("w2")
    \/ AccountSelect("w1")
    \/ AccountInsert("w1")
    \/ InsertTrade("w1")
    \/ RebuildDelete("w2")
    \/ RebuildDeleteResume("w2")
    \/ RebuildScan("w2")
    \/ \E w \in Callers :
          \/ SelectPosition(w)
          \/ WritePosition(w)
          \/ Commit(w)

SpecRebuild == Init /\ [][NextRebuild]_vars

\* C38: whenever no call of w1 or w2 is running and the trades of account a
\* were committed in ascending (timestamp, trade_id) order, the positions of
\* a are the replay of its committed trades.
C38_RebuildRaceConsistent ==
    ((\A w \in Callers : pc[w] \in {"idle", "ret"}) /\ ordered["a"]) =>
        LET replay == Replay({}, TradesForRebuild("a")) IN
        replay.ok => RowsOf(positions, "a") = replay.rows

\* C39: a delivery that is over has had exactly one call on its message:
\* Term when the payload was rejected, Nak when a store call failed, Ack
\* otherwise; no Ack follows a Term.
C39_OneDispositionPerDelivery ==
    \A i \in DOMAIN stream :
        LET m == stream[i] IN
        (m.deliveries > 0 /\ m.state # "inflight") =>
            /\ Len(m.calls) = 1
            /\ m.outcome = "rejected" => m.calls = <<"term">>
            /\ m.outcome = "error" => m.calls = <<"nak">>
            /\ m.outcome = "ok" => m.calls = <<"ack">>

\* C40: the id generated for the trade of a running
\* InsertTradeAndUpdatePosition is the id of no position row of another
\* (account_id, symbol, market_type) key, so the call cannot fail on the
\* primary key of such a row.
C40_PositionIdsDistinctAcrossKeys ==
    (call[SeqCaller].op = "itup" /\ pc[SeqCaller] \in TxSteps) =>
        LET trade == call[SeqCaller].trade[1] IN
        \A r \in positions : r.id = PosID(trade) => KeyOf(r) = KeyOf(trade)

=============================================================================
